---- MODULE Spec2Model ----
(***************************************************************************)
(* A model of the mur RISC-V simulators: memory and bus (mem.rs, bus.rs),  *)
(* the decoder and executor of the Rv32i and Rv64i extensions (isa.rs),    *)
(* and the functional cores Dart, Kronos and Atlas (dart.rs, kronos.rs,    *)
(* atlas.rs).                                                              *)
(*                                                                         *)
(* Machine integers are wider than the model checker's integers, so a u64  *)
(* is a tuple of four 16-bit limbs and a u32 a tuple of two, least         *)
(* significant limb first.  Every operation of the code on these types    *)
(* (wrapping add, shifts, bitwise operators, casts, comparisons) is        *)
(* computed limb by limb at the width the code uses.                       *)
(***************************************************************************)
EXTENDS Integers, Sequences, FiniteSets, TLC

VARIABLES
    soc,        \* which core runs: "dart", "kronos" or "atlas" (none outside Spec)
    regs,       \* the register file, 0..31 -> u64
    pc,         \* the program counter, a u64
    mem,        \* Mem.mem: offset -> byte, for the bytes that are not zero
    stats,      \* Stats: cycles, stalls, alu_ops, mem_ops
    hist,       \* Kronos / Atlas: the history, a sequence of HistItem
    status,     \* the position of execute: "running", "returned", "panicked"
    exc,        \* the exception execute returned (NoExc while running)
    last,       \* ghost: the last iteration of execute: what it fetched, decoded
                \* and resolved, how it ended, and the state it started from
    fetched,    \* ghost: the addresses an instruction was fetched from
    calc_runs,  \* ghost: how often calc_stats has run
    bus_op,     \* SpecBus: the last bus operation and its result
    bus_prev,   \* SpecBus: the bus operation before the last
    isa,        \* SpecIsa: the word, its decoding, its resolved form, the write
    acct,       \* SpecAcct: the locals of calc_stats and where its loop stands
    cv          \* SpecCv: the latches of Cv64e40p and where its cycle stands

vars == <<soc, regs, pc, mem, stats, hist, status, exc, last, fetched, calc_runs,
          bus_op, bus_prev, isa, acct, cv>>

----------------------------------------------------------------------------
(* Machine words.                                                          *)

LimbBits == 4 * 4
Limb == 2 ^ LimbBits
LimbMax == Limb - 1
SignBit == 2 ^ (LimbBits - 1)

Limbs == 0 .. LimbMax

\* A small natural number as a u64 / u32.
U64(n) == <<n % Limb, n \div Limb, 0, 0>>
U32(n) == <<n % Limb, n \div Limb>>
\* A u64 written as four 16-bit groups, most significant first (as one reads hex).
Hex64(a, b, c, d) == <<d, c, b, a>>
Hex32(a, b) == <<b, a>>
Zero64 == U64(0)

\* `as usize` / use as an index or a memory offset: only for values below 2^31.
ToNat(w) == w[1] + Limb * w[2]

\* wrapping_add at the width of the operands.
RECURSIVE AddFrom(_, _, _, _)
AddFrom(a, b, i, carry) ==
    IF i > Len(a) THEN <<>>
    ELSE LET s == a[i] + b[i] + carry
         IN <<s % Limb>> \o AddFrom(a, b, i + 1, s \div Limb)

WrapAdd(a, b) == AddFrom(a, b, 1, 0)

\* The bitwise complement.
BitNot(a) == [i \in 1 .. Len(a) |-> LimbMax - a[i]]

\* wrapping_sub: a + !b + 1.
WrapSub(a, b) == AddFrom(a, BitNot(b), 1, 1)

RECURSIVE And16(_, _)
And16(x, y) ==
    IF x = 0 \/ y = 0 THEN 0
    ELSE (x % 2) * (y % 2) + 2 * And16(x \div 2, y \div 2)

RECURSIVE Or16(_, _)
Or16(x, y) ==
    IF x = 0 THEN y
    ELSE IF y = 0 THEN x
    ELSE ((x % 2) + (y % 2) - (x % 2) * (y % 2)) + 2 * Or16(x \div 2, y \div 2)

RECURSIVE Xor16(_, _)
Xor16(x, y) ==
    IF x = 0 THEN y
    ELSE IF y = 0 THEN x
    ELSE ((x + y) % 2) + 2 * Xor16(x \div 2, y \div 2)

BitAnd(a, b) == [i \in 1 .. Len(a) |-> And16(a[i], b[i])]
BitOr(a, b) == [i \in 1 .. Len(a) |-> Or16(a[i], b[i])]
BitXor(a, b) == [i \in 1 .. Len(a) |-> Xor16(a[i], b[i])]

\* The limb at position i, or `fill` beyond the word.
LimbAt(w, i, fill) == IF i >= 1 /\ i <= Len(w) THEN w[i] ELSE fill

\* wrapping_shl: the shift amount is taken modulo the width of the word.
Shl(w, n) ==
    LET m == n % (LimbBits * Len(w))
        q == m \div LimbBits
        r == m % LimbBits
    IN [i \in 1 .. Len(w) |->
           ((LimbAt(w, i - q, 0) * (2 ^ r)) % Limb)
           + (LimbAt(w, i - q - 1, 0) \div (2 ^ (LimbBits - r)))]

\* A right shift that fills with `fill` limbs.
ShrFill(w, n, fill) ==
    LET m == n % (LimbBits * Len(w))
        q == m \div LimbBits
        r == m % LimbBits
    IN [i \in 1 .. Len(w) |->
           (LimbAt(w, i + q, fill) \div (2 ^ r))
           + ((LimbAt(w, i + q + 1, fill) % (2 ^ r)) * (2 ^ (LimbBits - r)))]

IsNeg(w) == w[Len(w)] >= SignBit
SignFill(w) == IF IsNeg(w) THEN LimbMax ELSE 0

\* wrapping_shr of an unsigned word, and of a signed word (>> on i32 / i64).
Shr(w, n) == ShrFill(w, n, 0)
Sar(w, n) == ShrFill(w, n, SignFill(w))

\* Casts.
AsU32(w) == <<w[1], w[2]>>                                 \* u64 as u32
ZExt64(w) == <<w[1], w[2], 0, 0>>                          \* u32 as u64
SExt64_unsigned(w) == <<w[1], w[2], 0, 0>>                 \* u32 as u64, the sign lost
SExt64(w) == <<w[1], w[2], SignFill(w), SignFill(w)>>      \* u32 as i32 as i64 as u64
SExt8(w) == LET b == w[1] % 256                            \* u64 as i8 as i64 as u64
            IN IF b >= 128
               THEN <<b + (Limb - 256), LimbMax, LimbMax, LimbMax>>
               ELSE <<b, 0, 0, 0>>
SExt16(w) == <<w[1], SignFill(<<w[1]>>), SignFill(<<w[1]>>), SignFill(<<w[1]>>)>>

\* Unsigned comparison, from the most significant limb down.
RECURSIVE ULtFrom(_, _, _)
ULtFrom(a, b, i) ==
    IF i = 0 THEN FALSE
    ELSE IF a[i] # b[i] THEN a[i] < b[i]
    ELSE ULtFrom(a, b, i - 1)

ULt(a, b) == ULtFrom(a, b, Len(a))
ULe(a, b) == ~ULt(b, a)

\* Signed comparison (operands reinterpreted as two's complement).
SLt(a, b) ==
    IF IsNeg(a) # IsNeg(b) THEN IsNeg(a) ELSE ULt(a, b)

----------------------------------------------------------------------------
(* exception.rs                                                            *)

Exception(kind, val) == [kind |-> kind, val |-> val]
NoExc == Exception("None", Zero64)

\* Exception::is_fatal
\* is_fatal without the StoreAMOAccessFault arm.
is_fatal_no_store(e) ==
    e.kind \in {"InstructionAddrMisaligned", "InstructionAccessFault",
                "LoadAccessFault", "StoreAMOAddrMisaligned",
                "IllegalInstruction"}

is_fatal(e) ==
    e.kind \in {"InstructionAddrMisaligned", "InstructionAccessFault",
                "LoadAccessFault", "StoreAMOAddrMisaligned",
                "StoreAMOAccessFault", "IllegalInstruction"}

----------------------------------------------------------------------------
(* mem.rs: a byte vector of RAM_SIZE bytes.  The model keeps the bytes     *)
(* that are not zero; every other byte of the vector is zero.  Indexing    *)
(* the vector at or beyond its length panics.                              *)

B8 == 1
B16 == 2
B32 == 4
B64 == 8

RAM_BASE == Hex64(0, 0, \h8000, 0)
RAM_SIZE == 1024 * 1024 * 128
RAM_END == WrapSub(WrapAdd(U64(RAM_SIZE), RAM_BASE), U64(1))

MemByte(m, off) == IF off \in DOMAIN m THEN m[off] ELSE 0

MemSetByte(m, off, b) ==
    IF b = 0
    THEN [o \in (DOMAIN m) \ {off} |-> m[o]]
    ELSE [o \in (DOMAIN m) \cup {off} |-> IF o = off THEN b ELSE m[o]]

\* (0..size).map(|i| (mem[addr + i] as u64) << (i * 8)).reduce(|a, b| a | b)
RECURSIVE MemLoadFrom(_, _, _, _)
MemLoadFrom(m, off, size, i) ==
    IF i + 1 >= size THEN Shl(U64(MemByte(m, off + i)), i * 8)
    ELSE BitOr(Shl(U64(MemByte(m, off + i)), i * 8),
               MemLoadFrom(m, off, size, i + 1))

\* Mem::load: the value, or a panic when a byte lies beyond the vector.
MemLoad(m, off, size) ==
    IF off + size > RAM_SIZE
    THEN [ok |-> FALSE, val |-> Zero64]
    ELSE [ok |-> TRUE, val |-> MemLoadFrom(m, off, size, 0)]

\* Byte i of the value: ((value >> 8 * i) & 0xff) as u8.
StoreByte(value, i) == ToNat(BitAnd(Shr(value, 8 * i), U64(\hff)))

\* Mem::store: bytes are written in order; the write that falls beyond the
\* vector panics, with the bytes before it already written.
RECURSIVE MemStoreFrom(_, _, _, _, _)
MemStoreFrom(m, off, size, value, i) ==
    IF i >= size THEN [ok |-> TRUE, mem |-> m]
    ELSE IF off + i >= RAM_SIZE THEN [ok |-> FALSE, mem |-> m]
    ELSE MemStoreFrom(MemSetByte(m, off + i, StoreByte(value, i)),
                      off, size, value, i + 1)

MemStore(m, off, size, value) == MemStoreFrom(m, off, size, value, 0)

----------------------------------------------------------------------------
(* bus.rs                                                                  *)

\* The range one address too long: RAM_BASE..=RAM_END + 1.
InRam_one_more(addr) ==
    ULe(RAM_BASE, addr) /\ ULe(addr, WrapAdd(RAM_END, U64(1)))

\* The match arm RAM_BASE..=RAM_END.

InRam(addr) == ULe(RAM_BASE, addr) /\ ULe(addr, RAM_END)

\* Bus::new: a zeroed vector with the program spliced in at offset 0.
BusNew(program) ==
    LET nz == {i \in 1 .. Len(program) : program[i] # 0}
    IN [o \in {i - 1 : i \in nz} |-> program[o + 1]]

\* Bus::load: Ok(value), Err(LoadAccessFault(addr)), or the panic of Mem::load.
BusLoaded(r) ==
    IF r.ok THEN [kind |-> "Ok", val |-> r.val, exc |-> NoExc]
    ELSE [kind |-> "Panic", val |-> Zero64, exc |-> NoExc]

BusLoad(m, addr, size) ==
    IF InRam(addr)
    THEN BusLoaded(MemLoad(m, ToNat(WrapSub(addr, RAM_BASE)), size))
    ELSE [kind |-> "Err", val |-> Zero64,
          exc |-> Exception("LoadAccessFault", addr)]

\* Bus::store: Ok(()), Err(StoreAMOAccessFault(addr)), or the panic of Mem::store.
BusStored(r) ==
    IF r.ok THEN [kind |-> "Ok", mem |-> r.mem, exc |-> NoExc]
    ELSE [kind |-> "Panic", mem |-> r.mem, exc |-> NoExc]

BusStore(m, addr, size, value) ==
    IF InRam(addr)
    THEN BusStored(MemStore(m, ToNat(WrapSub(addr, RAM_BASE)), size, value))
    ELSE [kind |-> "Err", mem |-> m,
          exc |-> Exception("StoreAMOAccessFault", addr)]


----------------------------------------------------------------------------
(* isa.rs: field and immediate extraction from a 32-bit word (a u32).      *)

opcode(ins) == ToNat(BitAnd(ins, U32(\h7f)))
\* The mask of rd one bit too wide.
rd_6bits(ins) == ToNat(BitAnd(Shr(ins, 7), U32(\h3f)))

rd(ins) == ToNat(BitAnd(Shr(ins, 7), U32(\h1f)))
rs1(ins) == ToNat(BitAnd(Shr(ins, 15), U32(\h1f)))
rs2(ins) == ToNat(BitAnd(Shr(ins, 20), U32(\h1f)))
funct3(ins) == ToNat(BitAnd(Shr(ins, 12), U32(\h7)))
funct7(ins) == ToNat(Shr(ins, 25))

\* ((((ins & 0xfff00000) as i32) as i64) >> 20) as u64, without the sign.
i_imm_unsigned(ins) == Shr(ZExt64(BitAnd(ins, Hex32(\hfff0, 0))), 20)

i_imm(ins) == Sar(SExt64(BitAnd(ins, Hex32(\hfff0, 0))), 20)

s_imm(ins) ==
    BitOr(Sar(SExt64(BitAnd(ins, Hex32(\hfe00, 0))), 20),
          BitAnd(Shr(ZExt64(ins), 7), U64(\h1f)))

u_imm(ins) == SExt64(BitAnd(ins, Hex32(\hffff, \hf000)))

b_imm(ins) ==
    BitOr(BitOr(BitOr(Sar(SExt64(BitAnd(ins, Hex32(\h8000, 0))), 19),
                      Shl(BitAnd(ZExt64(ins), U64(\h80)), 4)),
                BitAnd(Shr(ZExt64(ins), 20), U64(\h7e0))),
          BitAnd(Shr(ZExt64(ins), 7), U64(\h1e)))

j_imm(ins) ==
    BitOr(BitOr(BitOr(Sar(SExt64(BitAnd(ins, Hex32(\h8000, 0))), 11),
                      BitAnd(ZExt64(ins), U64(\hff000))),
                BitAnd(Shr(ZExt64(ins), 9), U64(\h800))),
          BitAnd(Shr(ZExt64(ins), 20), U64(\h7fe)))

(* The instruction variants.  A variant is a record: op names it, rd is    *)
(* the destination index, rs1 and rs2 are u64 (the register index after    *)
(* id, the register's value after ex), imm is a u64 and shamt a u32 held   *)
(* as a number.  A field the variant does not have is zero.  fmt groups    *)
(* the variants by their fields:                                           *)
(*   "U" {rd, imm}  "I" {rd, rs1, imm}  "B" {rs1, rs2, imm}                 *)
(*   "SH" {rd, rs1, shamt}  "R" {rd, rs1, rs2}                              *)
Wild == 0 - 1

Ins(ext, op, fmt, d, s1, s2, imm, shamt) ==
    [ext |-> ext, op |-> op, fmt |-> fmt, rd |-> d, rs1 |-> s1, rs2 |-> s2,
     imm |-> imm, shamt |-> shamt]

\* The arms of the match in Rv32i::id, in order: funct7, funct3, opcode.
Rv32iArms == <<
    <<Wild, Wild, \b0110111, "Lui",   "U", "u">>,
    <<Wild, Wild, \b0010111, "Auipc", "U", "u">>,
    <<Wild, Wild, \b1101111, "Jal",   "U", "j">>,
    <<Wild, \b000, \b1100111, "Jalr",  "I", "i">>,
    <<Wild, \b000, \b1100011, "Beq",   "B", "b">>,
    <<Wild, \b001, \b1100011, "Bne",   "B", "b">>,
    <<Wild, \b100, \b1100011, "Blt",   "B", "b">>,
    <<Wild, \b101, \b1100011, "Bge",   "B", "b">>,
    <<Wild, \b110, \b1100011, "Bltu",  "B", "b">>,
    <<Wild, \b111, \b1100011, "Bgeu",  "B", "b">>,
    <<Wild, \b000, \b0000011, "Lb",    "I", "i">>,
    <<Wild, \b001, \b0000011, "Lh",    "I", "i">>,
    <<Wild, \b010, \b0000011, "Lw",    "I", "i">>,
    <<Wild, \b100, \b0000011, "Lbu",   "I", "i">>,
    <<Wild, \b101, \b0000011, "Lhu",   "I", "i">>,
    <<Wild, \b000, \b0100011, "Sb",    "B", "s">>,
    <<Wild, \b001, \b0100011, "Sh",    "B", "s">>,
    <<Wild, \b010, \b0100011, "Sw",    "B", "s">>,
    <<Wild, \b000, \b0010011, "Addi",  "I", "i">>,
    <<Wild, \b010, \b0010011, "Slti",  "I", "i">>,
    <<Wild, \b011, \b0010011, "Sltiu", "I", "i">>,
    <<Wild, \b100, \b0010011, "Xori",  "I", "i">>,
    <<Wild, \b110, \b0010011, "Ori",   "I", "i">>,
    <<Wild, \b111, \b0010011, "Andi",  "I", "i">>,
    <<\b0000000, \b001, \b0010011, "Slli", "SH", "i">>,
    <<\b0000000, \b101, \b0010011, "Srli", "SH", "i">>,
    <<\b0100000, \b101, \b0010011, "Srai", "SH", "i">>,
    <<\b0000000, \b000, \b0110011, "Add",  "R", "">>,
    <<\b0100000, \b000, \b0110011, "Sub",  "R", "">>,
    <<\b0000000, \b001, \b0110011, "Sll",  "R", "">>,
    <<\b0000000, \b010, \b0110011, "Slt",  "R", "">>,
    <<\b0000000, \b011, \b0110011, "Sltu", "R", "">>,
    <<\b0000000, \b100, \b0110011, "Xor",  "R", "">>,
    <<\b0000000, \b101, \b0110011, "Srl",  "R", "">>,
    <<\b0100000, \b101, \b0110011, "Sra",  "R", "">>,
    <<\b0000000, \b110, \b0110011, "Or",   "R", "">>,
    <<\b0000000, \b111, \b0110011, "And",  "R", "">> >>

\* The arms of the match in Rv64i::id, in order.
Rv64iArms == <<
    <<Wild, \b110, \b0000011, "Lwu",   "I", "i">>,
    <<Wild, \b011, \b0000011, "Ld",    "I", "i">>,
    <<Wild, \b011, \b0100011, "Sd",    "B", "s">>,
    <<Wild, \b000, \b0011011, "Addiw", "I", "i">>,
    <<\b0000000, \b001, \b0011011, "Slliw", "SH", "i">>,
    <<\b0000000, \b101, \b0011011, "Srliw", "SH", "i">>,
    <<\b0100000, \b101, \b0011011, "Sraiw", "SH", "i">>,
    <<\b0000000, \b000, \b0111011, "Addw", "R", "">>,
    <<\b0100000, \b000, \b0111011, "Subw", "R", "">>,
    <<\b0000000, \b001, \b0111011, "Sllw", "R", "">>,
    <<\b0000000, \b101, \b0111011, "Srlw", "R", "">>,
    <<\b0100000, \b101, \b0111011, "Sraw", "R", "">> >>

ArmMatches(arm, f7, f3, opc) ==
    /\ arm[1] \in {Wild, f7}
    /\ arm[2] \in {Wild, f3}
    /\ arm[3] = opc

\* The immediate an arm uses.
ArmImm(arm, ins) ==
    CASE arm[6] = "u" -> u_imm(ins)
      [] arm[6] = "j" -> j_imm(ins)
      [] arm[6] = "i" -> i_imm(ins)
      [] arm[6] = "b" -> b_imm(ins)
      [] arm[6] = "s" -> s_imm(ins)
      [] OTHER -> Zero64

Shamt(imm) == ToNat(BitAnd(AsU32(imm), U32(\hf)))

\* The variant an arm builds from the fields of the word.
ArmMake(ext, arm, d, s1, s2, imm) ==
    CASE arm[5] = "U" -> Ins(ext, arm[4], "U", d, Zero64, Zero64, imm, 0)
      [] arm[5] = "I" -> Ins(ext, arm[4], "I", d, s1, Zero64, imm, 0)
      [] arm[5] = "B" -> Ins(ext, arm[4], "B", 0, s1, s2, imm, 0)
      [] arm[5] = "SH" -> Ins(ext, arm[4], "SH", d, s1, Zero64, Zero64,
                              Shamt(imm))
      [] arm[5] = "R" -> Ins(ext, arm[4], "R", d, s1, s2, Zero64, 0)

ArmBuild(ext, arm, ins) ==
    ArmMake(ext, arm, rd(ins), U64(rs1(ins)), U64(rs2(ins)), ArmImm(arm, ins))

\* The arms that match the word.
Hits(arms, f7, f3, opc) ==
    {k \in 1 .. Len(arms) : ArmMatches(arms[k], f7, f3, opc)}

\* The first of them.
First(hits) == CHOOSE k \in hits : \A j \in hits : k <= j

IdHits(ext, arms, ins, hits) ==
    IF hits = {}
    THEN [ok |-> FALSE, exc |-> Exception("IllegalInstruction", ZExt64(ins))]
    ELSE [ok |-> TRUE, ins |-> ArmBuild(ext, arms[First(hits)], ins)]

\* Extension::id: the first arm that matches, or Err(IllegalInstruction(ins)).
IdWith(ext, arms, ins) ==
    IdHits(ext, arms, ins, Hits(arms, funct7(ins), funct3(ins), opcode(ins)))

Rv32i_id(ins) == IdWith("Rv32i", Rv32iArms, ins)
Rv64i_id(ins) == IdWith("Rv64i", Rv64iArms, ins)


----------------------------------------------------------------------------
(* isa.rs: Extension::ex, the read step.                                   *)

Reg(rf, idx) == rf[ToNat(idx)]

\* The mask ex applies to shamt: 0x1f in Rv32i, 0x3f in Rv64i.
ShamtMask(ext) == IF ext = "Rv32i" THEN U32(\h1f) ELSE U32(\h3f)

\* Extension::ex: the source register indices replaced by their values.
Ex(i, rf) ==
    CASE i.fmt = "U" -> i
      [] i.fmt = "I" -> [i EXCEPT !.rs1 = Reg(rf, i.rs1)]
      [] i.fmt = "B" -> [i EXCEPT !.rs1 = Reg(rf, i.rs1),
                                  !.rs2 = Reg(rf, i.rs2)]
      [] i.fmt = "SH" -> [i EXCEPT !.rs1 = Reg(rf, i.rs1),
                                   !.shamt = ToNat(BitAnd(U32(i.shamt),
                                                          ShamtMask(i.ext)))]
      [] i.fmt = "R" -> [i EXCEPT !.rs1 = Reg(rf, i.rs1),
                                  !.rs2 = Reg(rf, i.rs2)]

----------------------------------------------------------------------------
(* isa.rs: Extension::wr, the write step.  The result is Ok(next pc) with  *)
(* the register file and memory it leaves, Err(exception), or a panic.     *)

Four == U64(4)
One64 == U64(1)

WrOk(npc, rf, m) ==
    [kind |-> "Ok", pc |-> npc, regs |-> rf, mem |-> m, exc |-> NoExc]
WrErr(e, rf, m) ==
    [kind |-> "Err", pc |-> Zero64, regs |-> rf, mem |-> m, exc |-> e]
WrPanic(rf, m) ==
    [kind |-> "Panic", pc |-> Zero64, regs |-> rf, mem |-> m, exc |-> NoExc]

\* regs[rd as usize] = v; Ok(pc.wrapping_add(4))
SetRd(i, v, p, rf, m) ==
    WrOk(WrapAdd(p, Four), [rf EXCEPT ![i.rd] = v], m)

\* A branch: Ok(if taken { pc + imm } else { pc + 4 })
Branch(taken, i, p, rf, m) ==
    WrOk(IF taken THEN WrapAdd(p, i.imm) ELSE WrapAdd(p, Four), rf, m)

\* The low bits of rs2 or shamt that a shift uses (the shift operators take
\* the amount modulo the width of the shifted word, as wrapping_shl does).
Amount_5bits(w) == w[1] % 32
Amount(w) == w[1]

\* The cast a load applies to what the bus returned.
LoadCast(cast, v) ==
    CASE cast = "i8" -> SExt8(v)
      [] cast = "i16" -> SExt16(v)
      [] cast = "i32" -> SExt64(AsU32(v))
      [] OTHER -> v

\* A load whose `?` comes after the assignment to regs[rd].
WrLoaded_early(i, cast, p, rf, m, r) ==
    CASE r.kind = "Ok" -> SetRd(i, LoadCast(cast, r.val), p, rf, m)
      [] r.kind = "Err" -> WrErr(r.exc, [rf EXCEPT ![i.rd] = r.exc.val], m)
      [] r.kind = "Panic" -> WrPanic(rf, m)

\* regs[rd] = bus.load(addr, size)? <cast>; Ok(pc + 4), given the result r
\* of bus.load.
WrLoaded(i, cast, p, rf, m, r) ==
    CASE r.kind = "Ok" -> SetRd(i, LoadCast(cast, r.val), p, rf, m)
      [] r.kind = "Err" -> WrErr(r.exc, rf, m)
      [] r.kind = "Panic" -> WrPanic(rf, m)

\* A load: let addr = rs1.wrapping_add(imm); ...
WrLoad(i, size, cast, p, rf, m) ==
    WrLoaded(i, cast, p, rf, m, BusLoad(m, WrapAdd(i.rs1, i.imm), size))

\* bus.store(addr, size, value)?; Ok(pc + 4), given the result r of bus.store.
WrStored(p, rf, m, r) ==
    CASE r.kind = "Ok" -> WrOk(WrapAdd(p, Four), rf, r.mem)
      [] r.kind = "Err" -> WrErr(r.exc, rf, m)
      [] r.kind = "Panic" -> WrPanic(rf, r.mem)

\* A store: let addr = rs1.wrapping_add(imm); ...
WrStore(i, size, value, p, rf, m) ==
    WrStored(p, rf, m, BusStore(m, WrapAdd(i.rs1, i.imm), size, value))

Bool64(b) == IF b THEN U64(1) ELSE U64(0)

\* Jal that links to the target instead of pc + 4.
WrJal_linktarget(i, p, rf, m) ==
    WrOk(WrapAdd(p, i.imm), [rf EXCEPT ![i.rd] = WrapAdd(p, i.imm)], m)

WrJal(i, p, rf, m) ==
    WrOk(WrapAdd(p, i.imm), [rf EXCEPT ![i.rd] = WrapAdd(p, Four)], m)

\* Jalr without the & !1.
WrJalr_no_clear(i, p, rf, m) ==
    WrOk(WrapAdd(i.rs1, i.imm), [rf EXCEPT ![i.rd] = WrapAdd(p, Four)], m)

WrJalr(i, p, rf, m) ==
    WrOk(BitAnd(WrapAdd(i.rs1, i.imm), BitNot(One64)),
         [rf EXCEPT ![i.rd] = WrapAdd(p, Four)], m)

\* Addi: regs[rd] = rs1.wrapping_add(imm); Ok(pc.wrapping_add(4))
WrAddi(i, p, rf, m) == SetRd(i, WrapAdd(i.rs1, i.imm), p, rf, m)

Rv32i_wr(i, p, rf, m) ==
    CASE i.op = "Lui" -> SetRd(i, i.imm, p, rf, m)
      [] i.op = "Auipc" -> SetRd(i, WrapAdd(p, i.imm), p, rf, m)
      [] i.op = "Jal" -> WrJal(i, p, rf, m)
      [] i.op = "Jalr" -> WrJalr(i, p, rf, m)
      [] i.op = "Beq" -> Branch(i.rs1 = i.rs2, i, p, rf, m)
      [] i.op = "Bne" -> Branch(i.rs1 # i.rs2, i, p, rf, m)
      [] i.op = "Blt" -> Branch(SLt(i.rs1, i.rs2), i, p, rf, m)
      [] i.op = "Bge" -> Branch(~SLt(i.rs1, i.rs2), i, p, rf, m)
      [] i.op = "Bltu" -> Branch(ULt(i.rs1, i.rs2), i, p, rf, m)
      [] i.op = "Bgeu" -> Branch(~ULt(i.rs1, i.rs2), i, p, rf, m)
      [] i.op = "Lb" -> WrLoad(i, B8, "i8", p, rf, m)
      [] i.op = "Lh" -> WrLoad(i, B16, "i16", p, rf, m)
      [] i.op = "Lw" -> WrLoad(i, B32, "i32", p, rf, m)
      [] i.op = "Lbu" -> WrLoad(i, B8, "u", p, rf, m)
      [] i.op = "Lhu" -> WrLoad(i, B16, "u", p, rf, m)
      [] i.op = "Sb" -> WrStore(i, B8, BitAnd(i.rs2, U64(\hff)), p, rf, m)
      [] i.op = "Sh" -> WrStore(i, B16, BitAnd(i.rs2, U64(\hffff)), p, rf, m)
      [] i.op = "Sw" -> WrStore(i, B32, BitAnd(i.rs2, Hex64(0, 0, \hffff, \hffff)),
                                p, rf, m)
      [] i.op = "Addi" -> WrAddi(i, p, rf, m)
      [] i.op = "Slti" -> SetRd(i, Bool64(SLt(i.rs1, i.imm)), p, rf, m)
      [] i.op = "Sltiu" -> SetRd(i, Bool64(ULt(i.rs1, i.imm)), p, rf, m)
      [] i.op = "Xori" -> SetRd(i, BitXor(i.rs1, i.imm), p, rf, m)
      [] i.op = "Ori" -> SetRd(i, BitOr(i.rs1, i.imm), p, rf, m)
      [] i.op = "Andi" -> SetRd(i, BitAnd(i.rs1, i.imm), p, rf, m)
      [] i.op = "Slli" -> SetRd(i, Shl(i.rs1, i.shamt), p, rf, m)
      [] i.op = "Srli" -> SetRd(i, Shr(i.rs1, i.shamt), p, rf, m)
      [] i.op = "Srai" -> SetRd(i, Sar(i.rs1, i.shamt), p, rf, m)
      [] i.op = "Add" -> SetRd(i, WrapAdd(i.rs1, i.rs2), p, rf, m)
      [] i.op = "Sub" -> SetRd(i, WrapSub(i.rs1, i.rs2), p, rf, m)
      [] i.op = "Sll" -> SetRd(i, Shl(i.rs1, Amount(i.rs2)), p, rf, m)
      [] i.op = "Slt" -> SetRd(i, Bool64(SLt(i.rs1, i.rs2)), p, rf, m)
      [] i.op = "Sltu" -> SetRd(i, Bool64(ULt(i.rs1, i.rs2)), p, rf, m)
      [] i.op = "Xor" -> SetRd(i, BitXor(i.rs1, i.rs2), p, rf, m)
      [] i.op = "Srl" -> SetRd(i, Shr(i.rs1, Amount(i.rs2)), p, rf, m)
      [] i.op = "Sra" -> SetRd(i, Sar(i.rs1, Amount(i.rs2)), p, rf, m)
      [] i.op = "Or" -> SetRd(i, BitOr(i.rs1, i.rs2), p, rf, m)
      [] i.op = "And" -> SetRd(i, BitAnd(i.rs1, i.rs2), p, rf, m)

Rv64i_wr(i, p, rf, m) ==
    CASE i.op = "Lwu" -> WrLoad(i, B64, "u", p, rf, m)
      [] i.op = "Ld" -> WrLoad(i, B64, "u", p, rf, m)
      [] i.op = "Sd" -> WrStore(i, B64, i.rs2, p, rf, m)
      [] i.op = "Addiw" ->
            SetRd(i, SExt64(AsU32(WrapAdd(i.rs1, i.imm))), p, rf, m)
      [] i.op = "Slliw" ->
            SetRd(i, SExt64(AsU32(Shl(i.rs1, i.shamt))), p, rf, m)
      [] i.op = "Srliw" ->
            SetRd(i, SExt64(Shr(AsU32(i.rs1), i.shamt)), p, rf, m)
      [] i.op = "Sraiw" ->
            SetRd(i, SExt64(Sar(AsU32(i.rs1), i.shamt)), p, rf, m)
      [] i.op = "Addw" ->
            SetRd(i, SExt64(AsU32(WrapAdd(i.rs1, i.rs2))), p, rf, m)
      [] i.op = "Subw" ->
            SetRd(i, SExt64(AsU32(WrapSub(i.rs1, i.rs2))), p, rf, m)
      [] i.op = "Sllw" ->
            SetRd(i, SExt64(Shl(AsU32(i.rs1), Amount(i.rs2))), p, rf, m)
      [] i.op = "Srlw" ->
            SetRd(i, SExt64(Shr(AsU32(i.rs1), Amount(i.rs2))), p, rf, m)
      [] i.op = "Sraw" ->
            SetRd(i, SExt64(Sar(AsU32(i.rs1), Amount(i.rs2))), p, rf, m)

Wr(i, p, rf, m) ==
    IF i.ext = "Rv32i" THEN Rv32i_wr(i, p, rf, m) ELSE Rv64i_wr(i, p, rf, m)

----------------------------------------------------------------------------
(* isa.rs: the query accessors.                                            *)

LoadOps == {"Lb", "Lh", "Lw", "Lbu", "Lhu", "Lwu", "Ld"}
StoreOps == {"Sb", "Sh", "Sw", "Sd"}
BranchOps == {"Beq", "Bne", "Blt", "Bge", "Bltu", "Bgeu"}
JumpOps == {"Jal", "Jalr"}

is_ld(i) == i.op \in LoadOps
is_st(i) == i.op \in StoreOps
is_br(i) == i.op \in BranchOps
is_jmp(i) == i.op \in JumpOps

\* src_regs: the Vec of the rs1 / rs2 fields, as the variant holds them.
src_regs(i) ==
    CASE i.fmt = "U" -> <<>>
      [] i.fmt = "I" -> <<i.rs1>>
      [] i.fmt = "SH" -> <<i.rs1>>
      [] i.fmt = "B" -> <<i.rs1, i.rs2>>
      [] i.fmt = "R" -> <<i.rs1, i.rs2>>

\* Option<u64>: None is <<>>, Some(x) is <<x>>.
None == <<>>
Some(x) == <<x>>

dst_reg(i) == IF i.fmt = "B" THEN None ELSE Some(U64(i.rd))

src_mem_addr(i) == IF is_ld(i) THEN Some(WrapAdd(i.rs1, i.imm)) ELSE None
dst_mem_addr(i) == IF is_st(i) THEN Some(WrapAdd(i.rs1, i.imm)) ELSE None


----------------------------------------------------------------------------
(* kronos.rs, atlas.rs: the accounting phase.  A HistItem is a record; the *)
(* HistItem of Kronos has no src_mem and dst_mem, which are None here.     *)

\* intersect(a, b): the items of a that b contains.
intersect_first(a, b) == {k \in 1 .. Len(a) : k = 1 /\ \E j \in 1 .. Len(b) : b[j] = a[k]}

intersect(a, b) == {k \in 1 .. Len(a) : \E j \in 1 .. Len(b) : b[j] = a[k]}

\* Whether the entry may be marked executed, given what the cycle occupies.
CanFire_after_push(item, occupied_regs, occupied_addrs) ==
    /\ intersect(item.src_regs, occupied_regs \o item.dst_reg) = {}
    /\ \/ item.src_mem = None
       \/ ~(\E j \in 1 .. Len(occupied_addrs) :
               occupied_addrs[j] = item.src_mem[1])

\* An issue width of one: only the first entry of a cycle is marked.
CanFire_single(item, occupied_regs, occupied_addrs) ==
    occupied_regs = <<>> /\ occupied_addrs = <<>>

CanFire(item, occupied_regs, occupied_addrs) ==
    /\ intersect(item.src_regs, occupied_regs) = {}
    /\ \/ item.src_mem = None
       \/ ~(\E j \in 1 .. Len(occupied_addrs) :
               occupied_addrs[j] = item.src_mem[1])

\* *done = true, when the entry may execute.
Mark(h, i, executed, occupied_regs, occupied_addrs) ==
    IF CanFire(h[i], occupied_regs, occupied_addrs)
    THEN [executed EXCEPT ![i] = TRUE]
    ELSE executed

\* The for loop of one cycle from entry i on: the executed flags it leaves,
\* and whether a blocking entry cut the cycle short (continue 'cycle).
RECURSIVE VisitFrom(_, _, _, _, _)
VisitFrom(h, i, executed, occupied_regs, occupied_addrs) ==
    IF i > Len(h) THEN [executed |-> executed, blocked |-> FALSE]
    ELSE IF executed[i]
    THEN VisitFrom(h, i + 1, executed, occupied_regs, occupied_addrs)
    ELSE IF h[i].blocking
    THEN [executed |-> Mark(h, i, executed, occupied_regs, occupied_addrs),
          blocked |-> TRUE]
    ELSE VisitFrom(h, i + 1,
                   Mark(h, i, executed, occupied_regs, occupied_addrs),
                   occupied_regs \o h[i].dst_reg,
                   occupied_addrs \o h[i].dst_mem)

\* The 'cycle loop: the cycles and stalls it stores into stats.  A cycle
\* starts with cycles += 1 and empty occupied lists; after its for loop (v)
\* comes the next cycle, unless no entry blocked and all are executed.
RECURSIVE CycleLoop(_, _, _, _)

CycleEnd(h, v, cycles, stalls) ==
    IF v.blocked THEN CycleLoop(h, v.executed, cycles, stalls + 1)
    ELSE IF \A k \in 1 .. Len(h) : v.executed[k]
    THEN [cycles |-> cycles, stalls |-> stalls]
    ELSE CycleLoop(h, v.executed, cycles, stalls)

CycleLoop(h, executed, cycles, stalls) ==
    CycleEnd(h, VisitFrom(h, 1, executed, <<>>, <<>>), cycles + 1, stalls)

\* self.stats.cycles = cycles; self.stats.stalls = stalls
StoreStats(st, r) == [st EXCEPT !.cycles = r.cycles, !.stalls = r.stalls]

calc_stats(h, st) ==
    StoreStats(st, CycleLoop(h, [k \in 1 .. Len(h) |-> FALSE], 0, 0))

----------------------------------------------------------------------------
(* dart.rs, kronos.rs, atlas.rs: the functional cores.                     *)

Cores == {"dart", "kronos", "atlas"}

\* Stats::new
StatsNew == [cycles |-> 0, stalls |-> 0, alu_ops |-> 0, mem_ops |-> 0]

\* new: regs[2] = RAM_END, every other register 0.
RegsNew == [r \in 0 .. 31 |-> IF r = 2 THEN RAM_END ELSE Zero64]

\* self.regs[0] = 0 before wr, and after it.
ZeroBefore(rf) == [rf EXCEPT ![0] = Zero64]

ZeroAfter_skip(rf) == rf

ZeroAfter(rf) == [rf EXCEPT ![0] = Zero64]

\* The record datapath pushes to hist.
Kronos_record(i) ==
    [src_regs |-> src_regs(i), src_mem |-> None, dst_reg |-> dst_reg(i),
     dst_mem |-> None, blocking |-> is_ld(i) \/ is_st(i)]

Atlas_record(i) ==
    [src_regs |-> src_regs(i), src_mem |-> src_mem_addr(i),
     dst_reg |-> dst_reg(i), dst_mem |-> dst_mem_addr(i),
     blocking |-> is_br(i) \/ is_jmp(i)]

Record(core, i) ==
    IF core = "kronos" THEN Kronos_record(i) ELSE Atlas_record(i)

\* The counter datapath increments, before wr runs.
\* CountOp that counts every instruction as an ALU operation.
CountOp_alu_only(st, ins_ex) == [st EXCEPT !.alu_ops = @ + 1]

CountOp(st, ins_ex) ==
    IF is_ld(ins_ex) \/ is_st(ins_ex)
    THEN [st EXCEPT !.mem_ops = @ + 1]
    ELSE [st EXCEPT !.alu_ops = @ + 1]

\* datapath after wr returned w: on Err the `?` returns before pc is
\* assigned, register 0 is zeroed again and the record is pushed.
DatapathWr(core, i, p, st, h, ins_ex, w) ==
    [kind |-> w.kind, exc |-> w.exc, ins_ex |-> ins_ex,
     pc |-> IF w.kind = "Ok" THEN w.pc ELSE p,
     regs |-> IF w.kind = "Ok" THEN ZeroAfter(w.regs) ELSE w.regs,
     mem |-> w.mem,
     stats |-> CountOp(st, ins_ex),
     hist |-> IF w.kind = "Ok" /\ core # "dart"
              THEN Append(h, Record(core, i)) ELSE h]

\* datapath after ex returned ins_ex.
DatapathEx(core, i, p, rf, m, st, h, ins_ex) ==
    DatapathWr(core, i, p, st, h, ins_ex, Wr(ins_ex, p, ZeroBefore(rf), m))

\* datapath: ex on the register file as it is, the counters, register 0
\* zeroed, wr, register 0 zeroed again, the record pushed.
Datapath(core, i, p, rf, m, st, h) ==
    DatapathEx(core, i, p, rf, m, st, h, Ex(i, rf))

\* The decoding of pipeline: Rv32i::id, else Rv64i::id, else
\* Err(IllegalInstruction(ins as u64)).
\* The word cast through i32 on its way into the exception.
DecodeOf_signed(ins, a, b) ==
    IF a.ok THEN a
    ELSE IF b.ok THEN b
    ELSE [ok |-> FALSE, exc |-> Exception("IllegalInstruction", SExt64(ins))]

\* pipeline's if let chain: Rv32i::id, else Rv64i::id, else
\* Err(Exception::IllegalInstruction(ins as u64)).
DecodeOf(ins, a, b) ==
    IF a.ok THEN a
    ELSE IF b.ok THEN b
    ELSE [ok |-> FALSE, exc |-> Exception("IllegalInstruction", ZExt64(ins))]

Decode(ins) == DecodeOf(ins, Rv32i_id(ins), Rv64i_id(ins))

\* The width pipeline fetches with.
FetchBits == B64

NoIns == Ins("", "", "", 0, Zero64, Zero64, Zero64, 0)

\* What pipeline leaves when fetch or decoding fails: nothing changes.
PipelineErr(kind, e, word, p, rf, m, st, h) ==
    [kind |-> kind, exc |-> e, pc |-> p, regs |-> rf, mem |-> m,
     stats |-> st, hist |-> h, word |-> word, ins |-> NoIns,
     ins_ex |-> NoIns]

\* What pipeline leaves when datapath ran and returned r.
PipelineRan(ins, i, r) ==
    [kind |-> r.kind, exc |-> r.exc, pc |-> r.pc, regs |-> r.regs,
     mem |-> r.mem, stats |-> r.stats, hist |-> r.hist,
     word |-> Some(ins), ins |-> i, ins_ex |-> r.ins_ex]

\* pipeline once the word is decoded (d).
PipelineDecoded(core, p, rf, m, st, h, ins, d) ==
    IF ~d.ok THEN PipelineErr("Err", d.exc, Some(ins), p, rf, m, st, h)
    ELSE PipelineRan(ins, d.ins, Datapath(core, d.ins, p, rf, m, st, h))

\* pipeline once the bus answered the fetch (f).
PipelineFetched(core, p, rf, m, st, h, f) ==
    IF f.kind # "Ok" THEN PipelineErr(f.kind, f.exc, None, p, rf, m, st, h)
    ELSE PipelineDecoded(core, p, rf, m, st, h, AsU32(f.val),
                         Decode(AsU32(f.val)))

\* pipeline: fetch at pc, decode, datapath.
Pipeline(core, p, rf, m, st, h) ==
    PipelineFetched(core, p, rf, m, st, h, BusLoad(m, p, FetchBits))

----------------------------------------------------------------------------
(* Program images.  The assembler lays the fields of an instruction out as *)
(* the RISC-V encoding does (the tests of isa.rs assemble with clang); a   *)
(* program is a sequence of words and its image their little-endian bytes. *)

\* funct7 | rs2 | rs1 | funct3 | rd | opcode, as a u32.
EncR(f7, s2, s1, f3, d, opc) ==
    <<(s1 % 2) * (2 ^ 15) + f3 * (2 ^ 12) + d * (2 ^ 7) + opc,
      f7 * (2 ^ 9) + s2 * (2 ^ 4) + (s1 \div 2)>>

\* A signed immediate as an unsigned field of `bits` bits (two's complement).
Field(imm, bits) == imm % (2 ^ bits)

EncI(imm, s1, f3, d, opc) ==
    EncR(Field(imm, 12) \div 32, Field(imm, 12) % 32, s1, f3, d, opc)

EncS(imm, s2, s1, f3, opc) ==
    EncR(Field(imm, 12) \div 32, s2, s1, f3, Field(imm, 12) % 32, opc)

\* imm[12|10:5] | rs2 | rs1 | funct3 | imm[4:1|11] | opcode
EncB(imm, s2, s1, f3, opc) ==
    LET v == Field(imm, 13)
    IN EncR((v \div 4096) * 64 + ((v \div 32) % 64), s2, s1, f3,
            ((v \div 2) % 16) * 2 + ((v \div 2048) % 2), opc)

\* imm[31:12] | rd | opcode
EncU(imm20, d, opc) ==
    <<(imm20 % 16) * (2 ^ 12) + d * (2 ^ 7) + opc, imm20 \div 16>>

\* imm[20|10:1|11|19:12] | rd | opcode
EncJ(imm, d, opc) ==
    LET v == Field(imm, 21)
    IN EncU((v \div (2 ^ 20)) * (2 ^ 19) + ((v \div 2) % 1024) * (2 ^ 9)
            + ((v \div 2048) % 2) * (2 ^ 8) + ((v \div 4096) % 256), d, opc)

ADDI(d, s1, imm) == EncI(imm, s1, \b000, d, \b0010011)
JAL(d, imm) == EncJ(imm, d, \b1101111)
JALR(d, s1, imm) == EncI(imm, s1, \b000, d, \b1100111)
BEQ(s1, s2, imm) == EncB(imm, s2, s1, \b000, \b1100011)
LUI(d, imm20) == EncU(imm20, d, \b0110111)
LB(d, s1, imm) == EncI(imm, s1, \b000, d, \b0000011)
LD(d, s1, imm) == EncI(imm, s1, \b011, d, \b0000011)
SB(s2, s1, imm) == EncS(imm, s2, s1, \b000, \b0100011)
SD(s2, s1, imm) == EncS(imm, s2, s1, \b011, \b0100011)
ADDW(d, s1, s2) == EncR(0, s2, s1, \b000, d, \b0111011)
ILLEGAL == Hex32(\hffff, \hffff)

\* The bytes of a sequence of words.
Image(words) ==
    [k \in 1 .. 4 * Len(words) |->
        LET w == words[(k - 1) \div 4 + 1]
            b == (k - 1) % 4
        IN (w[b \div 2 + 1] \div (256 ^ (b % 2))) % 256]

\* The end-to-end scenarios.
ProgAddi == <<ADDI(31, 0, 42), ILLEGAL>>
ProgJal == <<JAL(1, 8), ILLEGAL, ADDI(5, 0, 7)>>
ProgBusFault == <<ADDI(1, 0, 0), LD(2, 1, 0)>>
ProgAddw == <<LUI(1, \h80000), ADDW(2, 1, 1)>>
Scenarios == {ProgAddi, ProgJal, ProgBusFault, ProgAddw}

\* The instructions the other programs are made of.
Pool == {
    ADDI(31, 0, 42),
    ADDI(0, 2, 5),          \* writes a value that is not 0 to x0
    ADDI(1, 2, 0 - 7),      \* x1 := RAM_END - 7 (with x2 = RAM_END)
    JAL(1, 8),
    JAL(0, 0),              \* jumps to itself
    BEQ(0, 0, 8),
    LD(2, 1, 0),            \* faults while x1 = 0
    LB(0, 2, 0),            \* a load into x0, from the last byte of RAM
    SD(2, 2, 0 - 8),        \* a store to RAM_END - 8
    SB(2, 2, 1),            \* a store to RAM_END + 1: outside RAM
    JALR(0, 2, 0),          \* jumps to RAM_END - 1
    JALR(2, 2, 0 - 3),      \* rd = rs1; jumps to the last word of RAM
    ILLEGAL }

MaxProgLen == 2
MaxSteps == 5

Programs ==
    Scenarios \cup UNION {[1 .. k -> Pool] : k \in 0 .. MaxProgLen}

NoLast ==
    [kind |-> "Init", addr |-> Zero64, word |-> None, ins |-> NoIns,
     ins_ex |-> NoIns, regs |-> RegsNew, mem |-> <<>>, pc |-> Zero64,
     stats |-> StatsNew, hist |-> <<>>, fetched |-> {}]

NoBusOp ==
    [n |-> 0, op |-> "none", addr |-> Zero64, size |-> 0, value |-> Zero64,
     kind |-> "None", val |-> Zero64, exc |-> NoExc]
\* Cv64e40p::new: every latch empty.  at is the stage the cycle stands
\* before; the other fields are ghosts: fetches counts the fetches, if_seq
\* and id_seq number the words in the two latches, ran and ran_seq say what
\* the execute stage of the cycle did and on which word, taken_seq is the
\* number of a jump or taken branch whose redirect is pending, squashed
\* holds the numbers of the words fetched between such an instruction and
\* its redirect, redirected and target say whether the writeback of the
\* cycle applied a branch_pc and which, x0_read is the value register 0
\* held where a stage last read its source registers, checked says whether
\* the build has overflow checks, prog is the program the bus was made of,
\* ld1_at and ld2_at are the cycles in which the loads of ld_ins1 and
\* ld_ins2 entered ld_ins1, loaded says of the load the writeback of the
\* cycle performed when it entered ld_ins1, its rd and the value read,
\* committed is the ex latch that writeback consumed, prev_ran and prev_seq
\* are ran and ran_seq of the cycle before.
CvNew ==
    [at |-> "wr", checked |-> FALSE, prog |-> <<>>, ifetch |-> <<>>, idecode |-> <<>>, ex |-> <<>>,
     branch_pc |-> <<>>, ld_ins1 |-> <<>>, ld_ins2 |-> <<>>,
     fetches |-> 0, if_seq |-> 0, id_seq |-> 0, ran |-> "none", ran_seq |-> 0,
     taken_seq |-> 0, squashed |-> {}, redirected |-> FALSE,
     target |-> Zero64, x0_read |-> Zero64, ld1_at |-> 0, ld2_at |-> 0,
     loaded |-> <<>>, committed |-> <<>>, prev_ran |-> "none", prev_seq |-> 0,
     ld1_addr |-> Zero64, ld2_addr |-> Zero64, addr_used |-> <<>>,
     addr_at_ex |-> Zero64, done |-> <<>>]

\* No in-order core.
NoCv == [CvNew EXCEPT !.at = "none"]

\* calc_stats not running.
NoAcct ==
    [at |-> "none", executed |-> <<>>, cycles |-> 0, stalls |-> 0,
     occupied_regs |-> <<>>, occupied_addrs |-> <<>>, i |-> 0,
     visited |-> {}, fired_in |-> <<>>, addrs |-> <<>>]

NoIsa ==
    [stage |-> "none", word |-> U32(0), ins |-> NoIns, exc |-> NoExc,
     ins_ex |-> NoIns]

\* new(bin) of the three cores.
Init ==
    /\ soc \in Cores
    /\ \E prog \in Programs : mem = BusNew(Image(prog))
    /\ regs = RegsNew
    /\ pc = RAM_BASE
    /\ stats = StatsNew
    /\ hist = <<>>
    /\ status = "running"
    /\ exc = NoExc
    /\ last = NoLast
    /\ fetched = {}
    /\ calc_runs = 0
    /\ bus_op = NoBusOp
    /\ bus_prev = <<>>
    /\ isa = NoIsa
    /\ acct = NoAcct
    /\ cv = NoCv

\* Whether execute returns: Err(ex) with ex.is_fatal().
Returns(r) == r.kind = "Err" /\ is_fatal(r.exc)

\* self.stats.cycles += 1 at the head of the loop of Dart.
Tick(core, st) ==
    IF core = "dart" THEN [st EXCEPT !.cycles = @ + 1] ELSE st

\* Accounting inside the loop: calc_stats after every instruction.
Accounts_every_step(core, r) == core # "dart"

\* Whether this iteration runs calc_stats: Kronos and Atlas call it in the
\* arm that returns the fatal exception; Dart has none.
Accounts(core, r) == Returns(r) /\ core # "dart"

\* The end of an iteration, given what pipeline returned.
Finish(r) ==
    /\ pc' = r.pc
    /\ regs' = r.regs
    /\ mem' = r.mem
    /\ hist' = r.hist
    /\ stats' = IF Accounts(soc, r)
                THEN calc_stats(r.hist, r.stats) ELSE r.stats
    /\ calc_runs' = IF Accounts(soc, r) THEN calc_runs + 1 ELSE calc_runs
    /\ status' = CASE r.kind = "Panic" -> "panicked"
                    [] Returns(r) -> "returned"
                    [] OTHER -> "running"
    /\ exc' = IF Returns(r) THEN r.exc ELSE exc
    /\ fetched' = IF r.word # None THEN fetched \cup {pc} ELSE fetched
    /\ last' = [kind |-> r.kind, addr |-> pc, word |-> r.word,
                ins |-> r.ins, ins_ex |-> r.ins_ex, regs |-> regs,
                mem |-> mem, pc |-> pc, stats |-> stats, hist |-> hist,
                fetched |-> fetched]

\* One iteration of the loop of execute.
Execute ==
    /\ status = "running"
    /\ stats.alu_ops + stats.mem_ops < MaxSteps
    /\ Finish(Pipeline(soc, pc, regs, mem, Tick(soc, stats), hist))
    /\ UNCHANGED <<cv, acct, soc, bus_op, bus_prev, isa>>

Next == Execute

Spec == Init /\ [][Next]_vars


-----------------------------------------------------------------------------
(* The bus on its own: stores and loads of every width at addresses at     *)
(* and around both ends of RAM.                                            *)

BusAddrs ==
    {Zero64, WrapSub(RAM_BASE, One64), RAM_BASE, WrapSub(RAM_END, U64(7)),
     WrapSub(RAM_END, One64), RAM_END, WrapAdd(RAM_END, One64),
     Hex64(\hffff, \hffff, \hffff, \hffff)}

BusWidths == {B8, B16, B32, B64}

BusValues == {Zero64, Hex64(\h7788, \h5566, \h3344, \h1122)}

MaxBusOps == 2

\* A bus holding the program ADDI x31,x0,42; <illegal>.
InitBus ==
    /\ soc = "none"
    /\ mem = BusNew(Image(ProgAddi))
    /\ regs = RegsNew
    /\ pc = RAM_BASE
    /\ stats = StatsNew
    /\ hist = <<>>
    /\ status = "running"
    /\ exc = NoExc
    /\ last = NoLast
    /\ fetched = {}
    /\ calc_runs = 0
    /\ bus_op = NoBusOp
    /\ bus_prev = mem
    /\ isa = NoIsa
    /\ acct = NoAcct
    /\ cv = NoCv

\* What a call of the bus leaves: a panic ends the process.
BusDone(op, addr, size, value, r, m, v) ==
    /\ mem' = m
    /\ bus_prev' = mem
    /\ bus_op' = [n |-> bus_op.n + 1, op |-> op, addr |-> addr, size |-> size,
                  value |-> value, kind |-> r.kind, val |-> v, exc |-> r.exc]
    /\ status' = IF r.kind = "Panic" THEN "panicked" ELSE status
    /\ UNCHANGED <<cv, acct, soc, regs, pc, stats, hist, exc, last, fetched, calc_runs,
                   isa>>

BusStored_op(addr, size, value, r) ==
    BusDone("store", addr, size, value, r, r.mem, Zero64)

\* bus.store(addr, size, value)
Store ==
    /\ status = "running" /\ bus_op.n < MaxBusOps
    /\ \E addr \in BusAddrs, size \in BusWidths, value \in BusValues :
          BusStored_op(addr, size, value, BusStore(mem, addr, size, value))

BusLoaded_op(addr, size, r) ==
    BusDone("load", addr, size, Zero64, r, mem, r.val)

\* bus.load(addr, size)
Load ==
    /\ status = "running" /\ bus_op.n < MaxBusOps
    /\ \E addr \in BusAddrs, size \in BusWidths :
          BusLoaded_op(addr, size, BusLoad(mem, addr, size))

NextBus == Store \/ Load

SpecBus == InitBus /\ [][NextBus]_vars

-----------------------------------------------------------------------------
(* The instruction set on its own: a word is decoded (id), its source      *)
(* registers are read (ex) and its effect is applied (wr), as tests::addi  *)
(* does.                                                                   *)

\* The words: every opcode and funct3 with these funct7 and register
\* fields, and the encodings of ADDI.
IsaFunct7 == {\b0000000, \b0100000, \b1111111}
IsaRegs == {<<0, 0, 0>>, <<31, 31, 31>>}
AddiRd == {0, 1, 5, 31}
AddiRs1 == {0, 1, 2, 31}
AddiImm == {0 - 2048, 0 - 1, 0, 1, 42, 2047}

FieldWords ==
    {EncR(f7, t[3], t[2], f3, t[1], opc) :
        f7 \in IsaFunct7, t \in IsaRegs, f3 \in 0 .. 7, opc \in 0 .. 127}

AddiWords == {ADDI(d, s1, imm) : d \in AddiRd, s1 \in AddiRs1, imm \in AddiImm}

Words == FieldWords \cup AddiWords \cup {ILLEGAL, U32(0)}

\* Register files: the one new builds, and one with a value in every
\* register but the first.
RegsBusy ==
    [r \in 0 .. 31 |->
        IF r = 0 THEN Zero64
        ELSE IF r % 2 = 1 THEN WrapSub(Zero64, U64(r))
        ELSE WrapAdd(RAM_BASE, U64(8 * r))]

RegFiles == {RegsNew, RegsBusy}

InitIsa ==
    /\ soc = "none"
    /\ \E w \in Words : isa = [NoIsa EXCEPT !.stage = "fetched", !.word = w]
    /\ acct = NoAcct
    /\ cv = NoCv
    /\ regs \in RegFiles
    /\ pc = RAM_BASE
    /\ mem = BusNew(Image(ProgAddi))
    /\ stats = StatsNew
    /\ hist = <<>>
    /\ status = "running"
    /\ exc = NoExc
    /\ last = NoLast
    /\ fetched = {}
    /\ calc_runs = 0
    /\ bus_op = NoBusOp
    /\ bus_prev = <<>>

IdDone(d) ==
    isa' = IF d.ok THEN [isa EXCEPT !.stage = "decoded", !.ins = d.ins]
           ELSE [isa EXCEPT !.stage = "illegal", !.exc = d.exc]

\* Rv32i::id(ins), else Rv64i::id(ins), else IllegalInstruction
Id ==
    /\ isa.stage = "fetched"
    /\ IdDone(Decode(isa.word))
    /\ UNCHANGED <<cv, acct, soc, regs, pc, mem, stats, hist, status, exc, last,
                   fetched, calc_runs, bus_op, bus_prev>>

\* t.ex(&regs)
ExStep ==
    /\ isa.stage = "decoded"
    /\ isa' = [isa EXCEPT !.stage = "read", !.ins_ex = Ex(isa.ins, regs)]
    /\ UNCHANGED <<cv, acct, soc, regs, pc, mem, stats, hist, status, exc, last,
                   fetched, calc_runs, bus_op, bus_prev>>

WrDone(w) ==
    /\ isa' = [isa EXCEPT !.stage = CASE w.kind = "Ok" -> "written"
                                      [] w.kind = "Err" -> "faulted"
                                      [] OTHER -> "panicked",
                          !.exc = w.exc]
    /\ regs' = w.regs
    /\ mem' = w.mem
    /\ pc' = IF w.kind = "Ok" THEN w.pc ELSE pc
    /\ last' = [NoLast EXCEPT !.kind = w.kind, !.regs = regs, !.mem = mem,
                              !.pc = pc]

\* t.wr(pc, &mut regs, &mut bus)
WrStep ==
    /\ isa.stage = "read"
    /\ WrDone(Wr(isa.ins_ex, pc, regs, mem))
    /\ UNCHANGED <<cv, acct, soc, stats, hist, status, exc, fetched, calc_runs, bus_op,
                   bus_prev>>

NextIsa == Id \/ ExStep \/ WrStep

SpecIsa == InitIsa /\ [][NextIsa]_vars

-----------------------------------------------------------------------------
(* The arithmetic of the instruction set: shifts, word-width operations    *)
(* and loads, decoded, read and written with x1 and x2 holding values at   *)
(* the edges of the 32-bit and 64-bit ranges.                              *)

\* funct7, funct3 and opcode of the register-form operations.
AluRegOps ==
    {<<\b0000000, \b001, \b0110011>>,       \* SLL
     <<\b0000000, \b101, \b0110011>>,       \* SRL
     <<\b0100000, \b101, \b0110011>>,       \* SRA
     <<\b0000000, \b000, \b0111011>>,       \* ADDW
     <<\b0100000, \b000, \b0111011>>,       \* SUBW
     <<\b0000000, \b001, \b0111011>>,       \* SLLW
     <<\b0000000, \b101, \b0111011>>,       \* SRLW
     <<\b0100000, \b101, \b0111011>>}       \* SRAW

\* funct7, funct3 and opcode of the immediate shifts.
AluShiftOps ==
    {<<\b0000000, \b001, \b0010011>>,       \* SLLI
     <<\b0000000, \b101, \b0010011>>,       \* SRLI
     <<\b0100000, \b101, \b0010011>>,       \* SRAI
     <<\b0000000, \b001, \b0011011>>,       \* SLLIW
     <<\b0000000, \b101, \b0011011>>,       \* SRLIW
     <<\b0100000, \b101, \b0011011>>}       \* SRAIW

\* funct3 of the loads LB, LH, LW, LBU, LHU, LWU, and their offsets.
AluLoadOps == {\b000, \b001, \b010, \b100, \b101, \b110}
AluLoadImm == {0, 2, 4}

\* op x3, x1, x2; op x3, x1, shamt; load x3, imm(x1)
AluWords ==
    {EncR(f[1], 2, 1, f[2], 3, f[3]) : f \in AluRegOps}
    \cup {EncR(f[1], sh, 1, f[2], 3, f[3]) : f \in AluShiftOps, sh \in 0 .. 31}
    \cup {EncI(imm, 1, f3, 3, \b0000011) : f3 \in AluLoadOps, imm \in AluLoadImm}

AluValues ==
    {Zero64, One64, U64(31), U64(32), U64(33), RAM_BASE,
     Hex64(0, 0, \h7fff, \hffff), Hex64(\hffff, \hffff, \h8000, 0),
     Hex64(\h9122, \h5566, \h8000, \h0001),
     Hex64(\hffff, \hffff, \hffff, \hffff)}

InitAlu ==
    /\ soc = "none"
    /\ \E w \in AluWords : isa = [NoIsa EXCEPT !.stage = "fetched", !.word = w]
    /\ acct = NoAcct
    /\ cv = NoCv
    /\ \E a \in AluValues, b \in AluValues :
          regs = [RegsNew EXCEPT ![1] = a, ![2] = b]
    /\ pc = RAM_BASE
    /\ mem = BusNew(Image(ProgAddi))
    /\ stats = StatsNew
    /\ hist = <<>>
    /\ status = "running"
    /\ exc = NoExc
    /\ last = NoLast
    /\ fetched = {}
    /\ calc_runs = 0
    /\ bus_op = NoBusOp
    /\ bus_prev = <<>>

SpecAlu == InitAlu /\ [][NextIsa]_vars

-----------------------------------------------------------------------------
(* kronos.rs, atlas.rs: calc_stats statement by statement, on the history  *)
(* a run of pipeline has left.  acct holds the locals of calc_stats:       *)
(* executed, cycles, stalls, the occupied lists, the position i of the     *)
(* iterator, and where the loop stands ("cycle": at the head of 'cycle,    *)
(* "for": in the for loop, "done": after the break); visited and fired_in  *)
(* are ghosts: the entries the for loop of the current cycle has visited,  *)
(* and for each entry the cycles in which it was marked executed; addrs,   *)
(* a ghost of the runs of execute, holds for each record the address its   *)
(* instruction accessed on the bus.                                        *)

\* The instructions the histories are made of: one that reads its own
\* destination, one that reads x1 as its second source only, a load and a
\* store of the same address, a branch and a jump, and a NOP, which reads
\* and writes x0.
AcctWords ==
    {ADDI(1, 1, 1), ADDW(3, 0, 1), LD(2, 1, 0), SD(2, 1, 0), BEQ(1, 2, 8),
     JAL(1, 8), ADDI(0, 0, 0)}

\* The records datapath pushes for them.
AcctItems(core) == {Record(core, Decode(w).ins) : w \in AcctWords}

MaxHist == 4
Histories(core) == UNION {[1 .. n -> AcctItems(core)] : n \in 0 .. MaxHist}

\* let mut cycles = 0; let mut stalls = 0;
\* let mut executed = vec![false; self.hist.len()];
InitAcct ==
    /\ soc \in {"kronos", "atlas"}
    /\ hist \in Histories(soc)
    /\ acct = [NoAcct EXCEPT !.at = "cycle",
                             !.executed = [k \in 1 .. Len(hist) |-> FALSE],
                             !.fired_in = [k \in 1 .. Len(hist) |-> <<>>]]
    /\ isa = NoIsa
    /\ cv = NoCv
    /\ regs = RegsNew
    /\ pc = RAM_BASE
    /\ mem = BusNew(Image(ProgAddi))
    /\ stats = StatsNew
    /\ status = "running"
    /\ exc = NoExc
    /\ last = NoLast
    /\ fetched = {}
    /\ calc_runs = 0
    /\ bus_op = NoBusOp
    /\ bus_prev = <<>>

AcctOnly ==
    UNCHANGED <<soc, regs, pc, mem, hist, status, exc, last, fetched, bus_op,
                bus_prev, isa, cv>>

\* 'cycle: loop { cycles += 1; the occupied lists are new and empty and the
\* iterator starts at the first entry.  A history of n entries has no more
\* than n cycles when every cycle marks an entry; one more is let in.
CycleBegins ==
    /\ acct.at = "cycle"
    /\ acct.cycles <= Len(hist)
    /\ acct' = [acct EXCEPT !.at = "for", !.cycles = @ + 1,
                            !.occupied_regs = <<>>, !.occupied_addrs = <<>>,
                            !.i = 1, !.visited = {}]
    /\ UNCHANGED <<stats, calc_runs>>
    /\ AcctOnly

\* The body without the continue 'cycle of a blocking entry.
Visited_no_break(i, executed) ==
    [acct EXCEPT
       !.executed = executed,
       !.fired_in[i] = IF executed[i] THEN Append(@, acct.cycles) ELSE @,
       !.visited = @ \cup {i},
       !.occupied_regs = @ \o hist[i].dst_reg,
       !.occupied_addrs = @ \o hist[i].dst_mem,
       !.stalls = IF hist[i].blocking THEN @ + 1 ELSE @,
       !.i = i + 1]

\* The body counting a stall only for a blocking entry it marks.
Visited_stall_fired(i, executed) ==
    [acct EXCEPT
       !.executed = executed,
       !.fired_in[i] = IF executed[i] THEN Append(@, acct.cycles) ELSE @,
       !.visited = @ \cup {i},
       !.occupied_regs = @ \o hist[i].dst_reg,
       !.occupied_addrs = @ \o hist[i].dst_mem,
       !.stalls = IF hist[i].blocking /\ executed[i] THEN @ + 1 ELSE @,
       !.at = IF hist[i].blocking THEN "cycle" ELSE "for",
       !.i = i + 1]

\* The body of the for loop on entry i, given the flags Mark left.
Visited(i, executed) ==
    [acct EXCEPT
       !.executed = executed,
       !.fired_in[i] = IF executed[i] THEN Append(@, acct.cycles) ELSE @,
       !.visited = @ \cup {i},
       !.occupied_regs = @ \o hist[i].dst_reg,
       !.occupied_addrs = @ \o hist[i].dst_mem,
       !.stalls = IF hist[i].blocking THEN @ + 1 ELSE @,
       !.at = IF hist[i].blocking THEN "cycle" ELSE "for",
       !.i = i + 1]

\* One step of the iterator: the filter passes over an entry that is done;
\* the body runs on one that is not, and a blocking entry ends the cycle
\* (continue 'cycle).
Visits ==
    /\ acct.at = "for"
    /\ acct.i <= Len(hist)
    /\ acct' = IF acct.executed[acct.i]
               THEN [acct EXCEPT !.i = @ + 1]
               ELSE Visited(acct.i, Mark(hist, acct.i, acct.executed,
                                         acct.occupied_regs,
                                         acct.occupied_addrs))
    /\ UNCHANGED <<stats, calc_runs>>
    /\ AcctOnly

\* After the for loop: if executed.iter().all(|e| *e) the counters are
\* stored and the loop breaks, else the next cycle begins.
CycleEnds ==
    /\ acct.at = "for"
    /\ acct.i > Len(hist)
    /\ IF \A k \in 1 .. Len(hist) : acct.executed[k]
       THEN /\ acct' = [acct EXCEPT !.at = "done"]
            /\ stats' = StoreStats(stats, [cycles |-> acct.cycles,
                                           stalls |-> acct.stalls])
            /\ calc_runs' = calc_runs + 1
       ELSE /\ acct' = [acct EXCEPT !.at = "cycle"]
            /\ UNCHANGED <<stats, calc_runs>>
    /\ AcctOnly

NextAcct == CycleBegins \/ Visits \/ CycleEnds

SpecAcct == InitAcct /\ [][NextAcct]_vars

\* calc_stats is a loop of one thread: a step that can be taken is taken.
SpecAcctLive == SpecAcct /\ WF_vars(NextAcct)

-----------------------------------------------------------------------------
(* soc.rs: the helpers of trait Isa and trait SoC that cv64e40p.rs calls.  *)
(* opcode, rd, rs1, rs2, funct3 and funct7 of trait Isa are the functions  *)
(* of the same names above.  cv64e40p.rs calls ld, st, jmp, br and alu     *)
(* with `?` and on a Bus: the memory accesses below go through Bus::load   *)
(* and Bus::store, and their Err is what the helper returns.               *)

\* (ins as i32) >> 20, widened to i64
Isa_i_imm(ins) == SExt64(Sar(ins, 20))

\* lower is the comparison (ins & 0xf80) > 7 as i32: 0 or 1
Isa_s_imm(ins) ==
    SExt64(BitOr(IF ToNat(BitAnd(ins, U32(\hf80))) > 7 THEN U32(1) ELSE U32(0),
                 Sar(BitAnd(ins, Hex32(\hfe00, 0)), 20)))

\* (ins as i32) >> 12
Isa_u_imm(ins) == SExt64(Sar(ins, 12))

\* lower | upper | sign | sgnif: the sign stays at bit 31
Isa_b_imm(ins) ==
    SExt64(BitOr(BitOr(Shr(BitAnd(ins, U32(\hf00)), 7),
                       Shr(BitAnd(ins, Hex32(\h7e00, 0)), 20)),
                 BitOr(BitAnd(ins, Hex32(\h8000, 0)),
                       Shl(BitAnd(ins, U32(\h80)), 4))))

\* lower | upper | middl | sign: the sign stays at bit 31
Isa_j_imm(ins) ==
    SExt64(BitOr(BitOr(Shr(BitAnd(ins, Hex32(\h7fe0, 0)), 20),
                       BitAnd(ins, Hex32(\h000f, \hf000))),
                 BitOr(Shr(BitAnd(ins, Hex32(\h0010, 0)), 9),
                       BitAnd(ins, Hex32(\h8000, 0)))))

Isa_is_ld(ins) == opcode(ins) = \b0000011
Isa_is_st(ins) == opcode(ins) = \b0100011
Isa_is_br(ins) == opcode(ins) = \b1100011
Isa_is_jmp(ins) == opcode(ins) = \b1101111 \/ opcode(ins) = \b1100111

\* is_zicsr is not in the sources: the SYSTEM opcode.
Isa_is_zicsr(ins) == opcode(ins) = \b1110011

\* SoC::ld: the width and the cast of each funct3; funct3 = 7 panics.
SoC_ld_width(f3) ==
    CASE f3 \in {0, 4} -> B8
      [] f3 \in {1, 5} -> B16
      [] f3 \in {2, 6} -> B32
      [] OTHER -> B64

SoC_ld_cast(f3) ==
    CASE f3 = 0 -> "i8"
      [] f3 = 1 -> "i16"
      [] f3 = 2 -> "i32"
      [] OTHER -> "u64"

SoC_ld_done(f3, r) ==
    IF r.kind = "Ok" THEN [r EXCEPT !.val = LoadCast(SoC_ld_cast(f3), r.val)]
    ELSE r

SoC_ld(ins, rf, m) ==
    IF funct3(ins) = 7
    THEN [kind |-> "Panic", val |-> Zero64, exc |-> NoExc]
    ELSE SoC_ld_done(funct3(ins),
                     BusLoad(m, WrapAdd(rf[rs1(ins)], Isa_i_imm(ins)),
                             SoC_ld_width(funct3(ins))))

\* SoC::st: sb, sh, sw, sd; any other funct3 panics.
SoC_st(ins, rf, m) ==
    IF funct3(ins) > 3
    THEN [kind |-> "Panic", mem |-> m, exc |-> NoExc]
    ELSE BusStore(m, WrapAdd(rf[rs1(ins)], Isa_s_imm(ins)),
                  SoC_ld_width(funct3(ins)), rf[rs2(ins)])

\* SoC::src_regs: the register indices, or the panic on any other opcode.
SoC_src_regs(ins) ==
    CASE opcode(ins) \in {\b1100111, \b0000011, \b0010011} ->
            [ok |-> TRUE, regs |-> {rs1(ins)}]
      [] opcode(ins) \in {\b1100011, \b0100011, \b0110011} ->
            [ok |-> TRUE, regs |-> {rs1(ins), rs2(ins)}]
      [] OTHER -> [ok |-> FALSE, regs |-> {}]

\* & 0xff_ff_ff_fe
JmpMask == Hex64(0, 0, \hffff, \hfffe)

\* SoC::jmp: (next, rd) with rd = pc + 4.
SoC_jmp(ins, rf, p) ==
    [next |-> IF opcode(ins) = \b1101111
              THEN BitAnd(WrapAdd(p, Isa_j_imm(ins)), JmpMask)
              ELSE BitAnd(WrapAdd(rf[rs1(ins)], Isa_i_imm(ins)), JmpMask),
     rd |-> WrapAdd(p, Four)]

\* Whether the branch is taken; funct3 2 and 3 panic.
SoC_br_taken(f3, a, b) ==
    CASE f3 = 0 -> a = b
      [] f3 = 1 -> a # b
      [] f3 = 4 -> SLt(a, b)
      [] f3 = 5 -> ~SLt(a, b)
      [] f3 = 6 -> ULt(a, b)
      [] OTHER -> ~ULt(a, b)

\* SoC::br: Some(pc + b_imm) if taken, else None.
SoC_br(ins, rf, p) ==
    IF funct3(ins) \in {2, 3}
    THEN [ok |-> FALSE, pc |-> None]
    ELSE [ok |-> TRUE,
          pc |-> IF SoC_br_taken(funct3(ins), rf[rs1(ins)], rf[rs2(ins)])
                 THEN Some(WrapAdd(p, Isa_b_imm(ins)))
                 ELSE None]

AluOk(v) == [ok |-> TRUE, val |-> v]
AluPanic == [ok |-> FALSE, val |-> Zero64]

\* << and >> by an amount of 64 or more: a panic in a build with overflow
\* checks, the amount modulo 64 in one without.
AluShift(checked, v, amount, op) ==
    IF checked /\ ULe(U64(64), amount) THEN AluPanic
    ELSE CASE op = "shl" -> AluOk(Shl(v, amount[1]))
           [] op = "shr" -> AluOk(Shr(v, amount[1]))
           [] op = "sar" -> AluOk(Sar(v, amount[1]))

\* The arms of SoC::alu on opcode 0b0010011.
SoC_alu_imm(checked, f7, f3, a, imm) ==
    CASE f3 = 0 -> AluOk(WrapAdd(a, imm))
      [] f3 = 2 -> AluOk(Bool64(SLt(a, imm)))
      [] f3 = 3 -> AluOk(Bool64(ULt(a, imm)))
      [] f3 = 4 -> AluOk(BitXor(a, imm))
      [] f3 = 6 -> AluOk(BitOr(a, imm))
      [] f3 = 7 -> AluOk(BitAnd(a, imm))
      [] f3 = 1 -> AluShift(checked, a, imm, "shl")
      [] f3 = 5 /\ f7 = 0 -> AluShift(checked, a, imm, "shr")
      [] f3 = 5 /\ f7 = 64 ->
            AluShift(checked, a,
                     ZExt64(BitAnd(AsU32(imm), Hex32(\h7fff, \hffff))), "sar")
      [] OTHER -> AluPanic

\* rs2 & 0b1_1111
Low5Bits(b) == b[1] % 32

\* The arms of SoC::alu on opcode 0b0110011.
SoC_alu_reg(f7, f3, a, b) ==
    CASE f7 = 0 /\ f3 = 0 -> AluOk(WrapAdd(a, b))
      [] f7 = 32 /\ f3 = 0 -> AluOk(WrapSub(a, b))
      [] f7 = 0 /\ f3 = 1 -> AluOk(Shl(a, Low5Bits(b)))
      [] f7 = 0 /\ f3 = 2 -> AluOk(Bool64(SLt(a, b)))
      [] f7 = 0 /\ f3 = 3 -> AluOk(Bool64(ULt(a, b)))
      [] f7 = 0 /\ f3 = 4 -> AluOk(BitXor(a, b))
      [] f7 = 0 /\ f3 = 5 -> AluOk(Shr(a, Low5Bits(b)))
      [] f7 = 32 /\ f3 = 5 -> AluOk(Sar(a, Low5Bits(b)))
      [] f7 = 0 /\ f3 = 6 -> AluOk(BitOr(a, b))
      [] f7 = 0 /\ f3 = 7 -> AluOk(BitAnd(a, b))
      [] OTHER -> AluPanic

\* SoC::alu
SoC_alu(checked, ins, rf, p) ==
    CASE opcode(ins) = \b0110111 -> AluOk(Shl(Isa_u_imm(ins), 12))
      [] opcode(ins) = \b0010111 -> AluOk(WrapAdd(p, Shl(Isa_u_imm(ins), 12)))
      [] opcode(ins) = \b0010011 ->
            SoC_alu_imm(checked, funct7(ins), funct3(ins), rf[rs1(ins)],
                        Isa_i_imm(ins))
      [] opcode(ins) = \b0110011 ->
            SoC_alu_reg(funct7(ins), funct3(ins), rf[rs1(ins)], rf[rs2(ins)])
      [] OTHER -> AluPanic

-----------------------------------------------------------------------------
(* cv64e40p.rs: the in-order core.  One action per stage call of execute;  *)
(* a latch is an Option: None or Some(x).  The ex latch holds Some of the  *)
(* pair <<rd, value>>.                                                    *)

\* Stats::new (stats.rs)
CvStatsNew == [cycles |-> 0, stall_cycles |-> 0, exec_cycles |-> 0, mem_cycles |-> 0]

\* What a stage call leaves: Ok(()), Err(exc) or a panic, and the fields.
CvOut(kind, e, c, rf, p, m, st) ==
    [kind |-> kind, exc |-> e, cv |-> c, regs |-> rf, pc |-> p, mem |-> m,
     stats |-> st]

\* wr: if let Some((rd, x)) = self.ex { self.regfile[rd] = x; self.ex = None }
CvWrEx(c, rf) ==
    IF c.ex = None THEN rf ELSE [rf EXCEPT ![c.ex[1][1]] = c.ex[1][2]]

\* wr: the flush that follows self.pc = pc, with idecode left in place.
Flush_keeps_idecode(c) == [c EXCEPT !.ifetch = None, !.branch_pc = None]

\* wr: the flush that follows self.pc = pc.
Flush(c) == [c EXCEPT !.idecode = None, !.ifetch = None, !.branch_pc = None]

\* wr: if let Some(pc) = self.branch_pc { ... }
CvWrBranch(c, rf, p, m, st) ==
    IF c.branch_pc = None
    THEN CvOut("Ok", NoExc, c, rf, p, m, st)
    ELSE CvOut("Ok", NoExc,
               [Flush(c) EXCEPT !.redirected = TRUE,
                                !.target = c.branch_pc[1],
                                !.squashed = @ \cup (c.taken_seq + 1 .. c.fetches),
                                !.taken_seq = 0],
               rf, c.branch_pc[1], m, st)

\* wr: the move that is skipped in a writeback that performed a load.
CvLdMove_if_idle(c) ==
    IF c.ld_ins2 # None THEN [c EXCEPT !.ld_ins2 = None, !.ld2_at = 0]
    ELSE [c EXCEPT !.ld_ins2 = c.ld_ins1, !.ld_ins1 = None,
                   !.ld2_at = c.ld1_at, !.ld1_at = 0,
                   !.ld2_addr = c.ld1_addr]

\* wr: self.ld_ins2 = None after the load, then ld_ins1 moves to ld_ins2,
\* which is empty by now.
CvLdMove(c) ==
    [c EXCEPT !.ld_ins2 = c.ld_ins1, !.ld_ins1 = None,
              !.ld2_at = c.ld1_at, !.ld1_at = 0,
              !.ld2_addr = c.ld1_addr]

\* wr from the load latches on, given the result r of self.ld(ld_ins2)
\* ("Skip" when ld_ins2 is None): the `?` returns before the latches move.
CvWrLoaded(c, rf, p, m, st, r) ==
    CASE r.kind = "Err" -> CvOut("Err", r.exc, c, rf, p, m, st)
      [] r.kind = "Panic" -> CvOut("Panic", NoExc, c, rf, p, m, st)
      [] r.kind = "Ok" ->
            CvWrBranch([CvLdMove(c) EXCEPT
                          !.loaded = Some(<<c.ld2_at, rd(c.ld_ins2[1]), r.val>>)],
                       [rf EXCEPT ![rd(c.ld_ins2[1])] = r.val], p, m, st)
      [] OTHER -> CvWrBranch(CvLdMove(c), rf, p, m, st)

\* wr: the load of ld_ins2, on the register file the ex latch was written to.
CvWrLd(c, rf, m) ==
    IF c.ld_ins2 = None THEN [kind |-> "Skip"]
    ELSE SoC_ld(c.ld_ins2[1], rf, m)

\* wr: the address self.ld(ld_ins2) computes, on the register file the ex
\* latch was written to.
CvWrAddr(c, rf) ==
    IF c.ld_ins2 = None THEN None
    ELSE Some(WrapAdd(rf[rs1(c.ld_ins2[1])], Isa_i_imm(c.ld_ins2[1])))

\* Cv64e40p::wr
Cv_wr(c, rf, p, m, st) ==
    CvWrLoaded([c EXCEPT !.ex = None, !.redirected = FALSE,
                         !.loaded = None, !.committed = c.ex,
                         !.addr_used = CvWrAddr(c, CvWrEx(c, rf)),
                         !.addr_at_ex = c.ld2_addr,
                         !.x0_read = IF c.ld_ins2 = None THEN @
                                     ELSE CvWrEx(c, rf)[0]],
               CvWrEx(c, rf), p, m, st, CvWrLd(c, CvWrEx(c, rf), m))

\* ex: the arm of a jump.
CvExJmp(c, ins, rf, p, m, st, j) ==
    CvOut("Ok", NoExc,
          [c EXCEPT !.branch_pc = Some(j.next), !.ex = Some(<<rd(ins), j.rd>>),
                    !.idecode = None, !.ran = "jmp", !.taken_seq = c.id_seq],
          rf, p, m, st)

\* ex: the arm of a branch, given the result b of self.br.
CvExBr(c, ins, rf, p, m, st, b) ==
    IF ~b.ok THEN CvOut("Panic", NoExc, c, rf, p, m, st)
    ELSE CvOut("Ok", NoExc,
               [c EXCEPT !.branch_pc = b.pc, !.idecode = None, !.ran = "br",
                         !.taken_seq = IF b.pc = None THEN @ ELSE c.id_seq],
               rf, p, m, st)

\* ex: the arm of a load.
CvExLd(c, ins, rf, p, m, st) ==
    CvOut("Ok", NoExc,
          [c EXCEPT !.ld_ins1 = Some(ins), !.idecode = None, !.ran = "ld",
                    !.ld1_at = st.cycles,
                    !.ld1_addr = WrapAdd(rf[rs1(ins)], Isa_i_imm(ins))],
          rf, p, m, [st EXCEPT !.mem_cycles = @ + 1])

\* ex: the arm of a store, given the result r of self.st.
CvExSt(c, ins, rf, p, m, st, r) ==
    CASE r.kind = "Err" -> CvOut("Err", r.exc, c, rf, p, m, st)
      [] r.kind = "Panic" -> CvOut("Panic", NoExc, c, rf, p, r.mem, st)
      [] OTHER ->
            CvOut("Ok", NoExc, [c EXCEPT !.idecode = None, !.ran = "st"],
                  rf, p, r.mem, [st EXCEPT !.mem_cycles = @ + 1])

\* ex: the last arm without a stall, given the result a of self.alu.
CvExAluDone(c, ins, rf, p, m, st, a) ==
    IF ~a.ok THEN CvOut("Panic", NoExc, c, rf, p, m, st)
    ELSE CvOut("Ok", NoExc,
               [c EXCEPT !.ex = Some(<<rd(ins), a.val>>), !.idecode = None,
                         !.ran = "alu"],
               rf, p, m, [st EXCEPT !.exec_cycles = @ + 1])

\* ex: the last arm without the stall.
CvExAlu_no_stall(checked, c, ins, rf, p, m, st, s) ==
    IF ~s.ok THEN CvOut("Panic", NoExc, c, rf, p, m, st)
    ELSE CvExAluDone(c, ins, rf, p, m, st, SoC_alu(checked, ins, rf, p))

\* ex: the last arm, given the result s of self.src_regs: the stall on a
\* source register that is the rd of ld_ins2.
CvExAlu(checked, c, ins, rf, p, m, st, s) ==
    IF ~s.ok THEN CvOut("Panic", NoExc, c, rf, p, m, st)
    ELSE IF c.ld_ins2 # None /\ rd(c.ld_ins2[1]) \in s.regs
    THEN CvOut("Ok", NoExc, [c EXCEPT !.ran = "stall"], rf, p, m,
               [st EXCEPT !.stall_cycles = @ + 1])
    ELSE CvExAluDone(c, ins, rf, p, m, st, SoC_alu(checked, ins, rf, p))

\* ex on the word of idecode, with self.regfile[0] = 0 done.  csr.rs and
\* zicsr are not in the sources: a run is not followed into a CSR access.
CvExOn(checked, c, ins, rf, p, m, st) ==
    CASE Isa_is_jmp(ins) -> CvExJmp(c, ins, rf, p, m, st, SoC_jmp(ins, rf, p))
      [] Isa_is_br(ins) -> CvExBr(c, ins, rf, p, m, st, SoC_br(ins, rf, p))
      [] Isa_is_ld(ins) -> CvExLd(c, ins, rf, p, m, st)
      [] Isa_is_st(ins) -> CvExSt(c, ins, rf, p, m, st, SoC_st(ins, rf, m))
      [] Isa_is_zicsr(ins) -> CvOut("Csr", NoExc, c, rf, p, m, st)
      [] OTHER -> CvExAlu(checked, c, ins, rf, p, m, st, SoC_src_regs(ins))

\* Cv64e40p::ex: runs if idecode holds a word and ex and ld_ins1 are empty.
Cv_ex(c, rf, p, m, st) ==
    IF c.idecode # None /\ c.ex = None /\ c.ld_ins1 = None
    THEN CvExOn(c.checked,
                [c EXCEPT !.ran = "fault", !.ran_seq = c.id_seq,
                          !.x0_read = Zero64, !.prev_ran = c.ran,
                          !.prev_seq = c.ran_seq],
                c.idecode[1], [rf EXCEPT ![0] = Zero64], p, m, st)
    ELSE CvOut("Ok", NoExc,
               [c EXCEPT !.ran = "none", !.ran_seq = 0, !.prev_ran = c.ran,
                         !.prev_seq = c.ran_seq],
               rf, p, m, st)

\* Cv64e40p::idecode: ifetch moves on if idecode is empty, and is emptied.
Cv_idecode(c) ==
    IF c.idecode = None
    THEN [c EXCEPT !.idecode = c.ifetch, !.id_seq = c.if_seq,
                   !.ifetch = None, !.if_seq = 0]
    ELSE [c EXCEPT !.ifetch = None, !.if_seq = 0]

\* Cv64e40p::ifetch, given the result r of bus.load(self.pc, B32).
CvFetched(c, rf, p, m, st, r) ==
    CASE r.kind = "Err" -> CvOut("Err", r.exc, c, rf, p, m, st)
      [] r.kind = "Panic" -> CvOut("Panic", NoExc, c, rf, p, m, st)
      [] OTHER ->
            CvOut("Ok", NoExc,
                  [c EXCEPT !.ifetch = Some(AsU32(r.val)),
                            !.fetches = @ + 1, !.if_seq = c.fetches + 1],
                  rf, p, m, st)

Cv_ifetch(c, rf, p, m, st) ==
    IF c.ifetch = None
    THEN CvFetched(c, rf, p, m, st, BusLoad(m, p, B32))
    ELSE CvOut("Ok", NoExc, c, rf, p, m, st)

-----------------------------------------------------------------------------
(* Cv64e40p::execute, a stage call at a time, on the programs below.       *)

\* The branch-flush and the load-use scenario.
ProgBranch ==
    <<ADDI(1, 0, 1), BEQ(1, 1, 8), ADDI(2, 0, 7), ADDI(3, 0, 9)>>
ProgLoadUse ==
    <<ADDI(1, 0, 8), SD(0, 1, 0), LD(2, 1, 0), ADDI(3, 2, 1)>>

\* The load-use pair on an address of RAM: x2 is RAM_END at the start.
ProgLoadUseRam == <<LD(5, 2, -7), ADDI(6, 5, 1), ADDI(7, 0, 3)>>

\* A jump over three instructions to a fourth.
ProgJumpOver ==
    <<JAL(1, 8), ADDI(2, 0, 7), ADDI(3, 0, 9), ADDI(4, 0, 9), ADDI(5, 0, 3)>>

\* A load and an ALU instruction behind it that write the same register,
\* and an instruction that reads it.
ProgLoadOver == <<LD(5, 2, -7), ADDI(5, 0, 1), ADDI(6, 5, 0)>>

\* A load of the program's first bytes into x0 and an instruction that
\* reads x0, behind a jump that leaves RAM_BASE + 12 in x1.
ProgLoadZero ==
    <<JAL(1, 8), ADDI(0, 0, 0), ADDI(0, 0, 0), ADDI(0, 0, 0), LD(0, 1, -12),
      ADDI(3, 0, 1)>>

\* The same load into x4, and an instruction that reads x4.
ProgLoadUseWord ==
    <<JAL(1, 8), ADDI(0, 0, 0), ADDI(0, 0, 0), ADDI(0, 0, 0), LD(4, 1, -12),
      ADDI(3, 4, 1)>>

\* The same load, and a branch that compares x4 with x0.
ProgLoadBranch ==
    <<JAL(1, 8), ADDI(0, 0, 0), ADDI(0, 0, 0), ADDI(0, 0, 0), LD(4, 1, -12),
      BEQ(4, 0, 8), ADDI(5, 0, 1), ADDI(6, 0, 2)>>

\* The same load, and an instruction behind it that writes its base.
ProgLoadBase ==
    <<JAL(1, 8), ADDI(0, 0, 0), ADDI(0, 0, 0), ADDI(0, 0, 0), LD(4, 1, -12),
      ADDI(1, 1, 8)>>

\* A jump with a link register to a store at address 0, and the same
\* store where the jump lands when its offset is added to the address of
\* the fetch instead.
ProgJumpFault ==
    <<JAL(1, 8), ADDI(0, 0, 0), SD(0, 0, 0), ADDI(0, 0, 0), SD(0, 0, 0)>>

\* An instruction that writes x1 and a store of x1 at address 0.
ProgStoreFault == <<ADDI(1, 0, 1), SD(1, 0, 0)>>

CvScenarios ==
    {ProgBranch, ProgLoadUse, ProgLoadUseRam, ProgJumpOver, ProgLoadOver,
     ProgLoadZero, ProgLoadUseWord, ProgLoadBranch, ProgLoadBase,
     ProgJumpFault, ProgStoreFault}

\* The instructions the other programs are made of.
CvPool ==
    {ADDI(1, 0, 1),
     ADDI(0, 0, 5),          \* writes a value that is not 0 to x0
     ADDI(4, 0, 9),
     JAL(0, 8),              \* a jump whose rd is x0
     JAL(1, 8),
     BEQ(1, 1, 8),           \* taken
     BEQ(0, 2, 8),           \* not taken
     LD(0, 2, -7),           \* a load whose rd is x0
     LD(5, 0, -16),          \* a load whose base is x0
     SD(1, 2, -7)}

MaxCvLen == 2
MaxCycles == 14

CvPrograms == CvScenarios \cup UNION {[1 .. k -> CvPool] : k \in 0 .. MaxCvLen}

\* overflow checks of the build: on or off.
InitCv ==
    /\ soc = "cv64e40p"
    /\ \E prog \in CvPrograms, checked \in BOOLEAN :
          /\ mem = BusNew(Image(prog))
          /\ cv = [CvNew EXCEPT !.checked = checked, !.prog = prog]
    /\ last = NoLast
    /\ regs = RegsNew
    /\ pc = RAM_BASE
    /\ stats = CvStatsNew
    /\ hist = <<>>
    /\ status = "running"
    /\ exc = NoExc
    /\ fetched = {}
    /\ calc_runs = 0
    /\ bus_op = NoBusOp
    /\ bus_prev = <<>>
    /\ isa = NoIsa
    /\ acct = NoAcct

\* match self.stage() { Ok(_) => {}, Err(ex) => if ex.is_fatal() { return } }:
\* what the call left stays, a fatal exception ends execute, a panic ends
\* the process, and the cycle goes on at `next` otherwise.
CvStage(r, next) ==
    /\ cv' = [r.cv EXCEPT !.at = next]
    /\ regs' = r.regs
    /\ pc' = r.pc
    /\ mem' = r.mem
    /\ stats' = r.stats
    /\ status' = CASE r.kind = "Panic" -> "panicked"
                   [] r.kind = "Csr" -> "csr"
                   [] r.kind = "Err" /\ is_fatal(r.exc) -> "returned"
                   [] OTHER -> status
    /\ exc' = IF r.kind = "Err" /\ is_fatal(r.exc) THEN r.exc ELSE exc
    /\ UNCHANGED <<soc, hist, last, fetched, calc_runs, bus_op, bus_prev, isa,
                   acct>>

\* stats.cycles += 1; self.wr()
CvWr ==
    /\ status = "running"
    /\ cv.at = "wr"
    /\ stats.cycles < MaxCycles
    /\ CvStage(Cv_wr(cv, regs, pc, mem, [stats EXCEPT !.cycles = @ + 1]), "ex")

\* The ghost done: the fetches whose words ex has run, in the order it ran
\* them; a call that found no word or stalled ran none.
CvRan(r) ==
    [r EXCEPT !.cv.done = IF r.cv.ran \in {"none", "stall"} THEN @
                          ELSE Append(@, r.cv.ran_seq)]

\* self.ex(&mut stats)
CvEx ==
    /\ status = "running"
    /\ cv.at = "ex"
    /\ CvStage(CvRan(Cv_ex(cv, regs, pc, mem, stats)), "idecode")

\* self.idecode()
CvIdecode ==
    /\ status = "running"
    /\ cv.at = "idecode"
    /\ CvStage(CvOut("Ok", NoExc, Cv_idecode(cv), regs, pc, mem, stats),
               "ifetch")

\* self.ifetch(), and self.pc += 4 unless execute has returned
CvAdvance(r) ==
    CvStage(IF r.kind = "Ok" \/ (r.kind = "Err" /\ ~is_fatal(r.exc))
            THEN [r EXCEPT !.pc = WrapAdd(r.pc, Four)] ELSE r,
            "wr")

CvIfetch ==
    /\ status = "running"
    /\ cv.at = "ifetch"
    /\ CvAdvance(Cv_ifetch(cv, regs, pc, mem, stats))

NextCv == CvWr \/ CvEx \/ CvIdecode \/ CvIfetch

SpecCv == InitCv /\ [][NextCv]_vars

-----------------------------------------------------------------------------
(* Properties of the functional cores, checked under Spec.                 *)

\* The step before this state ran datapath on a decoded instruction.
Ran == last.kind # "Init" /\ last.ins # NoIns

\* The address a load or store of the last step went to.
LastAddr == WrapAdd(last.ins_ex.rs1, last.ins_ex.imm)

\* C1: in Dart, Kronos and Atlas register 0 holds 0 at every instruction
\* boundary: before each fetch and when execute has returned, also after an
\* instruction whose rd is 0 and after one that ended in an exception.
C1_ZeroRegister ==
    status \in {"running", "returned"} => regs[0] = Zero64

\* An instruction with rd = 0 whose wr stored a value other than 0 in
\* register 0 has just completed.
C1_Witness ==
    /\ Ran /\ last.kind = "Ok"
    /\ last.ins.fmt # "B" /\ last.ins.rd = 0
    /\ Wr(last.ins_ex, last.pc, last.regs, last.mem).regs[0] # Zero64
    /\ regs[0] = Zero64

\* C2: when execute returns because the word fetched at A does not decode,
\* it returns IllegalInstruction carrying that word, pc is A, and registers
\* and memory are those the last completed instruction left; the program
\* ADDI x31,x0,42; <illegal> ends with x31 = 42, pc = RAM_BASE + 4,
\* alu_ops = 1 and mem_ops = 0.
C2_IllegalStop ==
    /\ (status = "returned" /\ last.word # None /\ ~Decode(last.word[1]).ok)
        => /\ exc = Exception("IllegalInstruction", ZExt64(last.word[1]))
           /\ last.word[1] = AsU32(BusLoad(mem, pc, FetchBits).val)
           /\ pc = last.addr
           /\ regs = last.regs
           /\ mem = last.mem
    /\ (status = "returned" /\ mem = BusNew(Image(ProgAddi)))
        => /\ exc = Exception("IllegalInstruction", ZExt64(ILLEGAL))
           /\ regs[31] = U64(42)
           /\ pc = WrapAdd(RAM_BASE, Four)
           /\ stats.alu_ops = 1
           /\ stats.mem_ops = 0

\* The run of ADDI x31,x0,42; <illegal> has returned.
C2_Witness ==
    /\ status = "returned" /\ mem = BusNew(Image(ProgAddi))
    /\ last.word = Some(ILLEGAL)
    /\ regs[31] = U64(42)

\* C3: execute returns only on an exception for which is_fatal is true, and
\* returns that exception; nothing is fetched or executed afterwards; Kronos
\* and Atlas run calc_stats exactly once, after the last executed instruction
\* and before execute returns.
C3_FatalReturn ==
    /\ status = "returned"
        => /\ last.kind = "Err"
           /\ is_fatal(exc)
           /\ exc = Pipeline(soc, last.pc, last.regs, last.mem, last.stats,
                             last.hist).exc
           /\ ~ENABLED Execute
           /\ calc_runs = IF soc = "dart" THEN 0 ELSE 1
           /\ soc # "dart" => stats = calc_stats(hist, stats)
    /\ status = "running"
        => /\ calc_runs = 0
           /\ last.kind \in {"Init", "Ok"}
           /\ soc # "dart" => stats.cycles = 0

\* Kronos or Atlas has returned after at least two completed instructions.
C3_Witness ==
    /\ status = "returned" /\ soc # "dart"
    /\ Len(hist) >= 2
    /\ calc_runs = 1
    /\ stats.cycles >= 2

\* C6: when a load or store faults on the bus, execute returns the access
\* fault with the offending address, pc stays at the faulting instruction,
\* the register file is as before (rd is not written), and the instruction
\* is counted in mem_ops; ADDI x1,x0,0; LD x2,0(x1) ends with
\* LoadAccessFault(0) and mem_ops = 1.
C6_AccessFault ==
    /\ (Ran /\ (is_ld(last.ins_ex) \/ is_st(last.ins_ex)) /\ ~InRam(LastAddr))
        => /\ status = "returned"
           /\ exc = Exception(IF is_ld(last.ins_ex) THEN "LoadAccessFault"
                              ELSE "StoreAMOAccessFault", LastAddr)
           /\ pc = last.pc
           /\ regs = last.regs
           /\ mem = last.mem
           /\ stats.mem_ops = last.stats.mem_ops + 1
           /\ stats.alu_ops = last.stats.alu_ops
    /\ (status = "returned" /\ mem = BusNew(Image(ProgBusFault)))
        => /\ exc = Exception("LoadAccessFault", Zero64)
           /\ stats.mem_ops = 1

\* A load into a register that holds a value other than the faulting
\* address has faulted.
C6_Witness ==
    /\ Ran /\ is_ld(last.ins_ex) /\ ~InRam(LastAddr)
    /\ status = "returned"
    /\ last.ins_ex.rd # 0
    /\ regs[last.ins_ex.rd] # LastAddr

\* C7: JAL writes pc + 4 to rd and sets pc to pc + imm (wrapping); the words
\* between the jump and its target are not fetched; JAL x1,+8; <illegal>;
\* ADDI x5,x0,7 ends with x1 = RAM_BASE + 4, x5 = 7 and pc = RAM_BASE + 12,
\* the word at RAM_BASE + 4 never fetched.
C7_Jal ==
    /\ (Ran /\ last.ins.op = "Jal")
        => /\ last.kind = "Ok"
           /\ pc = WrapAdd(last.pc, last.ins.imm)
           /\ regs = [last.regs EXCEPT
                        ![last.ins.rd] = IF last.ins.rd = 0 THEN Zero64
                                         ELSE WrapAdd(last.pc, Four)]
           /\ fetched = last.fetched \cup {last.pc}
    /\ mem = BusNew(Image(ProgJal))
        => /\ WrapAdd(RAM_BASE, Four) \notin fetched
           /\ status = "returned"
               => /\ regs[1] = WrapAdd(RAM_BASE, Four)
                  /\ regs[5] = U64(7)
                  /\ pc = WrapAdd(RAM_BASE, U64(12))
                  /\ fetched = {RAM_BASE, WrapAdd(RAM_BASE, U64(8)),
                                WrapAdd(RAM_BASE, U64(12))}

\* The run of JAL x1,+8; <illegal>; ADDI x5,x0,7 has returned.
C7_Witness ==
    /\ status = "returned" /\ mem = BusNew(Image(ProgJal))
    /\ regs[5] = U64(7)

\* C8: executing an instruction whose destination register is 0 leaves
\* register 0 equal to 0 and registers 1..31 unchanged (and memory with
\* them); only pc changes.
C8_DiscardedWrite ==
    (Ran /\ last.kind \in {"Ok", "Err"} /\ last.ins.fmt # "B"
         /\ last.ins.rd = 0)
    => /\ regs[0] = Zero64
       /\ \A r \in 1 .. 31 : regs[r] = last.regs[r]
       /\ mem = last.mem

\* A jump with rd = 0 has moved pc, and wr had put the link address in
\* register 0.
C8_Witness ==
    /\ Ran /\ last.kind = "Ok"
    /\ last.ins.op \in {"Jal", "Jalr"} /\ last.ins.rd = 0
    /\ Wr(last.ins_ex, last.pc, last.regs, last.mem).regs[0]
         = WrapAdd(last.pc, Four)
    /\ regs = last.regs

-----------------------------------------------------------------------------
(* Properties of the bus, checked under SpecBus.                           *)

\* The interval [RAM_BASE, RAM_BASE + RAM_SIZE).
InInterval(addr) ==
    ULe(RAM_BASE, addr) /\ ULt(addr, WrapAdd(RAM_BASE, U64(RAM_SIZE)))

\* value & mask(width)
Masked(value, size) ==
    IF size = B64 THEN value
    ELSE BitAnd(value, WrapSub(Shl(One64, 8 * size), One64))

\* C4: for every address in [RAM_BASE, RAM_BASE + RAM_SIZE), the last bytes
\* of RAM included, every width and every value, Bus.store succeeds and a
\* following Bus.load of the same address and width succeeds and returns
\* the value masked to the width.
C4_RoundTrip ==
    (bus_op.op = "store" /\ InInterval(bus_op.addr))
    => /\ bus_op.kind = "Ok"
       /\ BusLoad(mem, bus_op.addr, bus_op.size)
            = [kind |-> "Ok", val |-> Masked(bus_op.value, bus_op.size),
               exc |-> NoExc]

\* C5: Bus.load at an address outside [RAM_BASE, RAM_BASE + RAM_SIZE)
\* returns LoadAccessFault carrying the address, Bus.store returns
\* StoreAMOAccessFault carrying the address, and the failed store leaves
\* every byte of memory unchanged.
C5_OutsideRam ==
    (bus_op.op # "none" /\ ~InInterval(bus_op.addr))
    => /\ bus_op.kind = "Err"
       /\ bus_op.exc = Exception(IF bus_op.op = "load" THEN "LoadAccessFault"
                                 ELSE "StoreAMOAccessFault", bus_op.addr)
       /\ mem = bus_prev

\* A store of a value other than 0 just beyond the end of RAM has failed,
\* after an earlier store had changed memory.
C5_Witness ==
    /\ bus_op.op = "store" /\ bus_op.kind = "Err"
    /\ bus_op.addr = WrapAdd(RAM_END, One64)
    /\ bus_op.value # Zero64
    /\ mem = bus_prev
    /\ mem # BusNew(Image(ProgAddi))

-----------------------------------------------------------------------------
(* Properties of the instruction set, checked under SpecIsa.               *)

\* The register indices 0..31, as the u64 fields of a variant.
RegIndex == {U64(k) : k \in 0 .. 31}

\* C9: for every word, Rv32i::id followed by Rv64i::id either yields a
\* variant whose rd, rs1 and rs2 are in 0..31, or IllegalInstruction carrying
\* the word is reported; decoding never crashes.
C9_DecodeTotal ==
    isa.stage \notin {"none", "fetched"}
    => \/ /\ isa.stage = "illegal"
          /\ isa.exc = Exception("IllegalInstruction", ZExt64(isa.word))
          /\ isa.ins = NoIns
       \/ /\ isa.stage \in {"decoded", "read", "written", "faulted",
                              "panicked"}
          /\ isa.ins # NoIns
          /\ isa.ins.rd \in 0 .. 31
          /\ isa.ins.rs1 \in RegIndex
          /\ isa.ins.rs2 \in RegIndex

\* A word whose three register fields are all 31 has been decoded.
C9_Witness ==
    /\ isa.stage = "decoded"
    /\ isa.ins.rd = 31 /\ isa.ins.rs1 = U64(31) /\ isa.ins.rs2 = U64(31)
    /\ funct3(isa.word) = 7

\* i sign-extended to 64 bits.
Imm64(i) == IF i >= 0 THEN U64(i) ELSE WrapSub(Zero64, U64(0 - i))

\* What holds of ADDI rd,rs1,i once id, ex and wr have run on its encoding.
AddiHolds(d, s1, i) ==
    /\ isa.stage \in {"fetched", "decoded", "read", "written"}
    /\ isa.stage # "fetched"
        => isa.ins = Ins("Rv32i", "Addi", "I", d, U64(s1), Zero64, Imm64(i), 0)
    /\ isa.stage = "read"
        => isa.ins_ex = [isa.ins EXCEPT !.rs1 = regs[s1]]
    /\ isa.stage = "written"
        => /\ isa.ins_ex = [isa.ins EXCEPT !.rs1 = last.regs[s1]]
           /\ regs = [last.regs EXCEPT
                        ![d] = WrapAdd(last.regs[s1], Imm64(i))]
           /\ pc = WrapAdd(last.pc, Four)
           /\ mem = last.mem

\* C10: decoding the encoding of ADDI rd,rs1,i yields Addi{rd, rs1, imm = i
\* sign-extended to 64 bits}; ex replaces rs1 by the value of the register
\* and leaves rd and imm; wr sets regs[rd] to rs1_value + imm (wrapping) and
\* returns pc + 4.
C10_AddiRoundTrip ==
    \A d \in AddiRd, s1 \in AddiRs1, i \in AddiImm :
        isa.word = ADDI(d, s1, i) => AddiHolds(d, s1, i)

\* ADDI x5,x31,-2048 has been written: x5 = x31 - 2048, with x31 not 0.
C10_Witness ==
    /\ isa.word = ADDI(5, 31, 0 - 2048)
    /\ isa.stage = "written"
    /\ last.regs[31] # Zero64
    /\ regs[5] = WrapSub(last.regs[31], U64(2048))

-----------------------------------------------------------------------------
(* Properties of the arithmetic, checked under SpecAlu.  The expected      *)
(* values are stated bit by bit.                                           *)

\* Bit k of a word.
Bit(w, k) == (w[(k \div 16) + 1] \div (2 ^ (k % 16))) % 2

\* The number whose bits lo .. lo + n - 1 of b are its binary digits.
RECURSIVE BitsVal(_, _, _)
BitsVal(b, lo, n) ==
    IF n = 0 THEN 0 ELSE b[lo] + 2 * BitsVal(b, lo + 1, n - 1)

\* The 64-bit word with the bits b[0] .. b[63].
Word64(b) ==
    <<BitsVal(b, 0, 16), BitsVal(b, 16, 16), BitsVal(b, 32, 16),
      BitsVal(b, 48, 16)>>

\* Bits 0..31 of b, with bit 31 repeated in bits 32..63.
SignExtend32(b) == Word64([k \in 0 .. 63 |-> IF k < 32 THEN b[k] ELSE b[31]])

\* a shifted left, right, or right with the sign, by n, at a width of w bits.
ShlBits(a, n, w) == [k \in 0 .. w - 1 |-> IF k >= n THEN Bit(a, k - n) ELSE 0]
ShrBits(a, n, w) ==
    [k \in 0 .. w - 1 |-> IF k + n < w THEN Bit(a, k + n) ELSE 0]
SarBits(a, n, w) ==
    [k \in 0 .. w - 1 |-> IF k + n < w THEN Bit(a, k + n) ELSE Bit(a, w - 1)]

\* (a + b) mod 2^32 and (a - b) mod 2^32, as bits.
Sum32(a, b) ==
    LET lo == a[1] + b[1]
        hi == a[2] + b[2] + (lo \div 65536)
    IN [k \in 0 .. 31 |-> Bit(<<lo % 65536, hi % 65536>>, k)]
Diff32(a, b) ==
    LET lo == a[1] - b[1] + 65536
        hi == a[2] - b[2] + 65536 - (IF a[1] < b[1] THEN 1 ELSE 0)
    IN [k \in 0 .. 31 |-> Bit(<<lo % 65536, hi % 65536>>, k)]

\* The low five bits of a word, as a number.
Low5(w) == w[1] % 32

\* wr has written x3, with x1 = a and x2 = b before it.
Wrote(op) == isa.stage = "written" /\ isa.ins.op = op

\* C11: ADDW writes sign_extend_32_to_64((a + b) mod 2^32), SUBW the same
\* of a - b, and SLLW, SRLW, SRAW shift the low 32 bits of a by b & 0x1f and
\* sign-extend bit 31 of the 32-bit result.
C11_WordWidth ==
    LET a == last.regs[1]
        b == last.regs[2]
    IN /\ isa.ins.op \in {"Addw", "Subw", "Sllw", "Srlw", "Sraw"}
           => isa.stage \in {"decoded", "read", "written"}
       /\ Wrote("Addw") => regs[3] = SignExtend32(Sum32(a, b))
       /\ Wrote("Subw") => regs[3] = SignExtend32(Diff32(a, b))
       /\ Wrote("Sllw") => regs[3] = SignExtend32(ShlBits(a, Low5(b), 32))
       /\ Wrote("Srlw") => regs[3] = SignExtend32(ShrBits(a, Low5(b), 32))
       /\ Wrote("Sraw") => regs[3] = SignExtend32(SarBits(a, Low5(b), 32))

\* ADDW of 0xffffffff80000000 to itself (what LUI x1,0x80000 leaves in x1)
\* has written 0.
C11_Witness ==
    /\ Wrote("Addw")
    /\ last.regs[1] = Hex64(\hffff, \hffff, \h8000, 0)
    /\ last.regs[2] = last.regs[1]
    /\ regs[3] = Zero64

\* The shift amount a shift-immediate word encodes: bits 20..24.
EncodedShamt == (isa.word[2] \div 16) % 32

\* C12: for every encoded shamt in 0..31, SLLI, SRLI and SRAI shift rs1 by
\* exactly that shamt, and SLLIW, SRLIW and SRAIW shift the low 32 bits of
\* rs1 by exactly that shamt and sign-extend the 32-bit result.
C12_ImmediateShift ==
    LET a == last.regs[1]
        n == EncodedShamt
    IN /\ Wrote("Slli") => regs[3] = Word64(ShlBits(a, n, 64))
       /\ Wrote("Srli") => regs[3] = Word64(ShrBits(a, n, 64))
       /\ Wrote("Srai") => regs[3] = Word64(SarBits(a, n, 64))
       /\ Wrote("Slliw") => regs[3] = SignExtend32(ShlBits(a, n, 32))
       /\ Wrote("Srliw") => regs[3] = SignExtend32(ShrBits(a, n, 32))
       /\ Wrote("Sraiw") => regs[3] = SignExtend32(SarBits(a, n, 32))

\* C13: SLL, SRL and SRA shift the 64-bit value of rs1 by rs2 & 0x1f (so
\* rs2 = 32 shifts by 0), and SRA fills with the sign bit.
C13_RegisterShift ==
    LET a == last.regs[1]
        b == last.regs[2]
    IN /\ Wrote("Sll") => regs[3] = Word64(ShlBits(a, Low5(b), 64))
       /\ Wrote("Srl") => regs[3] = Word64(ShrBits(a, Low5(b), 64))
       /\ Wrote("Sra") => regs[3] = Word64(SarBits(a, Low5(b), 64))

\* The low 6 bits of a 64-bit word: what wrapping_shl on a u64 keeps of the
\* amount.
Low6(w) == w[1] % 64

\* C13, amended: SLL, SRL and SRA shift the 64-bit value of rs1 by
\* rs2 & 0x3f, the low 6 bits of rs2 (rs2 = 32 shifts by 32, rs2 = 64 by 0),
\* and SRA fills with the sign bit.
C13_RegisterShift6 ==
    LET a == last.regs[1]
        b == last.regs[2]
    IN /\ isa.ins.op \in {"Sll", "Srl", "Sra"}
           => isa.stage \in {"decoded", "read", "written"}
       /\ Wrote("Sll") => regs[3] = Word64(ShlBits(a, Low6(b), 64))
       /\ Wrote("Srl") => regs[3] = Word64(ShrBits(a, Low6(b), 64))
       /\ Wrote("Sra") => regs[3] = Word64(SarBits(a, Low6(b), 64))

\* SRA of a negative value by rs2 = 32: the upper half is all sign bits.
C13_Witness ==
    /\ Wrote("Sra")
    /\ last.regs[1] = Hex64(\h9122, \h5566, \h8000, \h0001)
    /\ last.regs[2] = U64(32)
    /\ regs[3] = Hex64(\hffff, \hffff, \h9122, \h5566)

\* Bit k of the bytes of memory from offset off on, least significant
\* byte first.
MemBit(m, off, k) == (MemByte(m, off + (k \div 8)) \div (2 ^ (k % 8))) % 2

\* The n bytes at offset off, zero-extended or sign-extended to 64 bits.
ZeroExtended(m, off, n) ==
    Word64([k \in 0 .. 63 |-> IF k < 8 * n THEN MemBit(m, off, k) ELSE 0])
SignExtended(m, off, n) ==
    Word64([k \in 0 .. 63 |-> IF k < 8 * n THEN MemBit(m, off, k)
                                ELSE MemBit(m, off, 8 * n - 1)])

\* A load at x1 + imm with x1 = RAM_BASE has been decoded.
LoadsAtBase(op) ==
    /\ isa.ins.op = op
    /\ isa.stage \notin {"fetched", "decoded", "read"}
    /\ last.regs[1] = RAM_BASE

\* C14: LB, LH and LW write the sign-extension of the 1, 2 and 4 bytes read
\* at rs1 + imm; LBU, LHU and LWU write the zero-extension of the 1, 2 and 4
\* bytes read there, so that after LWU the upper 32 bits of rd are 0.
C14_LoadExtension ==
    LET off == isa.ins.imm[1]
        m == last.mem
    IN /\ \A op \in {"Lb", "Lh", "Lw", "Lbu", "Lhu", "Lwu"} :
             LoadsAtBase(op) => isa.stage = "written"
       /\ LoadsAtBase("Lb") => regs[3] = SignExtended(m, off, 1)
       /\ LoadsAtBase("Lh") => regs[3] = SignExtended(m, off, 2)
       /\ LoadsAtBase("Lw") => regs[3] = SignExtended(m, off, 4)
       /\ LoadsAtBase("Lbu") => regs[3] = ZeroExtended(m, off, 1)
       /\ LoadsAtBase("Lhu") => regs[3] = ZeroExtended(m, off, 2)
       /\ LoadsAtBase("Lwu") => regs[3] = ZeroExtended(m, off, 4)
                                /\ regs[3][3] = 0 /\ regs[3][4] = 0

-----------------------------------------------------------------------------
(* Properties of the accounting phase, checked under SpecAcct and          *)
(* SpecAcctLive.                                                           *)

\* The cycle in which entry k was marked executed (0: in none yet).
FiredAt(k) == IF acct.fired_in[k] = <<>> THEN 0 ELSE acct.fired_in[k][1]

\* A cycle is over: the loop is back at the head of 'cycle or has broken.
CycleOver == acct.at \in {"cycle", "done"} /\ acct.cycles >= 1

\* What holds when a cycle is over: one that visited an entry marked one.
FiresOne ==
    (CycleOver /\ acct.visited # {})
        => \E k \in acct.visited : FiredAt(k) = acct.cycles

\* What holds after the break.
AtEnd ==
    acct.at = "done"
        => /\ \A k \in 1 .. Len(hist) :
                 acct.executed[k] /\ Len(acct.fired_in[k]) = 1
           /\ acct.cycles >= 1
           /\ stats = calc_stats(hist, StatsNew)
           /\ stats.cycles = acct.cycles

\* A flag that is set stays set.
FlagsStay ==
    \A k \in 1 .. Len(hist) : acct.executed[k] => acct'.executed[k]

\* C15: calc_stats terminates on every history, the empty one included:
\* every cycle that starts with an unexecuted entry marks at least one
\* entry, a flag that is set is never reset, and at the end every entry was
\* marked exactly once and cycles >= 1.
C15_Terminates ==
    /\ [](FiresOne /\ AtEnd)
    /\ [][FlagsStay]_vars
    /\ <>(acct.at = "done")

\* A history of MaxHist entries that took more than one cycle and stalled.
C15_Witness ==
    /\ acct.at = "done"
    /\ Len(hist) = MaxHist
    /\ acct.cycles >= 3
    /\ acct.stalls >= 1
    /\ \E k \in 1 .. Len(hist) : FiredAt(k) = 1 /\ k > 1

\* Entry j reads the register entry i writes.
ReadsFrom(j, i) ==
    /\ hist[i].dst_reg # None
    /\ \E k \in 1 .. Len(hist[j].src_regs) :
          hist[j].src_regs[k] = hist[i].dst_reg[1]

\* C20: if entry j reads a register that an earlier entry i < j writes, j
\* is marked in a strictly later cycle than i; in a cycle in which the
\* writer is visited, the reader is not marked.
C20_RawOrder ==
    \A i \in 1 .. Len(hist), j \in 1 .. Len(hist) :
        (acct.at # "none" /\ i < j /\ ReadsFrom(j, i))
            => /\ FiredAt(j) # 0 => (FiredAt(i) # 0 /\ FiredAt(i) < FiredAt(j))
               /\ i \in acct.visited => FiredAt(j) # acct.cycles

\* ADDI x1,x1,1 then ADDW x3,x0,x1, which reads x1 as rs2: marked in
\* cycles 1 and 2.
C20_Witness ==
    /\ acct.at = "done"
    /\ Len(hist) >= 2
    /\ hist[1] = Record(soc, Decode(ADDI(1, 1, 1)).ins)
    /\ hist[2] = Record(soc, Decode(ADDW(3, 0, 1)).ins)
    /\ FiredAt(1) = 1
    /\ FiredAt(2) = 2

-----------------------------------------------------------------------------
(* Properties of the in-order core, checked under SpecCv.                  *)

\* execute has returned or the process has ended.
CvEnded == soc = "cv64e40p" /\ status # "running"

\* C16: in the cycle whose writeback applies a pending branch_pc, the
\* program counter is the target and ifetch, idecode and branch_pc are
\* empty after writeback, the execute stage of that cycle executes nothing,
\* and no word fetched between a jump or taken branch and its redirect is
\* ever executed.
C16_Redirect ==
    /\ (cv.at = "ex" /\ cv.redirected)
          => /\ pc = cv.target
             /\ cv.ifetch = None /\ cv.idecode = None /\ cv.branch_pc = None
    /\ (cv.at = "idecode" /\ cv.redirected) => cv.ran = "none"
    /\ (cv.at = "ex" /\ status = "running") => cv.branch_pc = None
    /\ cv.ran_seq \notin cv.squashed

\* The jump over three instructions has ended: the two words fetched
\* behind the jump were dropped and the word at the target was executed.
C16_Witness ==
    /\ CvEnded
    /\ cv.prog = ProgJumpOver
    /\ cv.squashed = {2, 3}
    /\ cv.target = WrapAdd(RAM_BASE, U64(16))
    /\ regs[5] = U64(3)
    /\ regs[3] = Zero64

\* C17: on ADDI x1,x0,1; BEQ x1,x1,+8; ADDI x2,x0,7; ADDI x3,x0,9 the
\* taken branch redirects to the address of the BEQ plus 8, and on
\* termination x2 = 0 and x3 = 9.
C17_BranchFlush ==
    (soc = "cv64e40p" /\ cv.prog = ProgBranch)
        => /\ cv.redirected => cv.target = WrapAdd(RAM_BASE, U64(12))
           /\ status # "running" => (regs[2] = Zero64 /\ regs[3] = U64(9))

\* C18: on ADDI x1,x0,8; SD x0,0(x1); LD x2,0(x1); ADDI x3,x2,1 the last
\* ADDI stalls at least one cycle and on termination x3 = 1.
C18_LoadUse ==
    (CvEnded /\ cv.prog = ProgLoadUse)
        => (stats.stall_cycles >= 1 /\ regs[3] = U64(1))

\* C19: register 0 is 0 at the end of every cycle and wherever a stage
\* reads a source register, also after a writeback to rd = 0.
C19_CvZeroRegister ==
    soc = "cv64e40p"
        => /\ cv.at = "wr" => regs[0] = Zero64
           /\ cv.x0_read = Zero64

-----------------------------------------------------------------------------
(* Properties of the records datapath pushes, checked under Spec.          *)

\* The step before this state pushed a record to hist.
LastPushed == Ran /\ last.kind = "Ok" /\ soc # "dart"

\* The record it pushed.
Pushed == hist[Len(hist)]

\* C22: in Kronos and in Atlas the record of every branch and of every jump
\* has blocking = true; the records of loads and stores are blocking in
\* exactly one of the two, and that one is the variant whose records carry
\* the memory addresses (Atlas).
C22_Blocking ==
    LastPushed
        => /\ (is_br(last.ins) \/ is_jmp(last.ins)) => Pushed.blocking
           /\ (is_ld(last.ins) \/ is_st(last.ins))
                  => (Pushed.blocking <=> soc = "atlas")

\* C23: in Atlas the src_mem of a load's record and the dst_mem of a
\* store's record are the address the instruction accessed on the bus: the
\* value rs1 held when it executed, plus imm.
C23_RecordedAddress ==
    (LastPushed /\ soc = "atlas")
        => /\ is_ld(last.ins) => Pushed.src_mem = Some(LastAddr)
           /\ is_st(last.ins) => Pushed.dst_mem = Some(LastAddr)

-----------------------------------------------------------------------------
(* Properties of the cycles of calc_stats, checked under SpecAcct.         *)

\* The for loop stands on entry acct.i, which is not executed.
AtEntry ==
    acct.at = "for" /\ acct.i <= Len(hist) /\ ~acct.executed[acct.i]

\* The step on a blocking entry: one stall, and the cycle is over.
BlockingStalls ==
    (AtEntry /\ hist[acct.i].blocking)
        => /\ acct'.stalls = acct.stalls + 1
           /\ acct'.cycles = acct.cycles
           /\ acct'.at = "cycle"
           /\ acct'.visited = acct.visited \cup {acct.i}

\* Behind a blocking entry the cycle visited, it visited and marked none.
NothingBehind ==
    \A j \in acct.visited :
        hist[j].blocking
            => \A k \in j + 1 .. Len(hist) :
                  k \notin acct.visited /\ FiredAt(k) # acct.cycles

\* An entry behind a blocking entry is marked in a later cycle than it.
BlockedLater ==
    \A j \in 1 .. Len(hist), k \in 1 .. Len(hist) :
        (j < k /\ hist[j].blocking /\ FiredAt(k) # 0)
            => (FiredAt(j) # 0 /\ FiredAt(j) < FiredAt(k))

\* C21: when the for loop visits an unexecuted blocking entry, stalls grows
\* by exactly one and the cycle ends: no entry behind it is visited or
\* marked in that cycle, so every entry behind a blocking entry is marked
\* in a strictly later cycle than the blocking entry.
C21_Serialises ==
    /\ [](NothingBehind /\ BlockedLater)
    /\ [][BlockingStalls]_vars

\* ADDI x1,x1,1; BEQ x1,x2 and a third entry in Atlas: the branch is
\* visited in cycle 1, where it cannot be marked, and in cycle 2; the last
\* entry is marked in cycle 3.
C21_Witness ==
    /\ acct.at = "done"
    /\ soc = "atlas"
    /\ Len(hist) = 3
    /\ hist[2].blocking
    /\ FiredAt(1) = 1 /\ FiredAt(2) = 2 /\ FiredAt(3) = 3
    /\ stats.stalls = 2 /\ stats.cycles = 3

\* The sources of the entry other than register 0 are not occupied, and
\* its source address is not.
FreeButZero(item) ==
    /\ \A k \in 1 .. Len(item.src_regs) :
          \/ item.src_regs[k] = Zero64
          \/ \A j \in 1 .. Len(acct.occupied_regs) :
                acct.occupied_regs[j] # item.src_regs[k]
    /\ \/ item.src_mem = None
       \/ \A j \in 1 .. Len(acct.occupied_addrs) :
             acct.occupied_addrs[j] # item.src_mem[1]

\* C25: register 0 creates no dependency: an entry is marked in the cycle
\* that visits it when its sources other than register 0 are free, also
\* when an earlier entry visited in the cycle has 0 as its destination
\* (NOP then ADDI x5,x0,1 are marked in the same cycle).
C25_ZeroNoDependency ==
    [][(AtEntry /\ FreeButZero(hist[acct.i])) => acct'.executed[acct.i]]_vars

\* No source register of the entry is occupied.
FreeRegs(item) == intersect(item.src_regs, acct.occupied_regs) = {}

\* Entry j loads from the address entry i stores to.
LoadsFrom(j, i) ==
    hist[i].dst_mem # None /\ hist[j].src_mem = hist[i].dst_mem

\* No entry is blocking and none reads a register an earlier one writes.
Independent ==
    /\ \A k \in 1 .. Len(hist) : ~hist[k].blocking
    /\ \A i \in 1 .. Len(hist), j \in 1 .. Len(hist) :
          i < j => ~ReadsFrom(j, i)

\* The counters calc_stats stored say one cycle and no stall.
OneCycle == acct.at = "done" => (stats.cycles = 1 /\ stats.stalls = 0)

NoAlias ==
    \A i \in 1 .. Len(hist), j \in 1 .. Len(hist) : i < j => ~LoadsFrom(j, i)

-----------------------------------------------------------------------------
(* kronos.rs, atlas.rs: execute as a whole.  The loop runs pipeline until  *)
(* a fatal exception, then calc_stats replays the history the run pushed,  *)
(* one entry of its for loop at a time, and execute returns.  status says  *)
(* how the loop ended, acct.at where calc_stats stands ("run": not yet     *)
(* called).                                                                *)

\* A store and a load of RAM_END - 8 through two registers that hold the
\* same value; the jump to the next instruction ends the cycle in which
\* x1 is written.
ProgAlias == <<ADDI(1, 2, 0), JAL(0, 4), SD(2, 2, 0 - 8), LD(3, 1, 0 - 8)>>

\* The same store and load through one register.
ProgSameBase == <<SD(2, 2, 0 - 8), LD(3, 2, 0 - 8)>>

RunPool ==
    {ADDI(1, 2, 0), JAL(0, 4), BEQ(0, 0, 4), SD(2, 2, 0 - 8),
     LD(3, 1, 0 - 8), LD(3, 2, 0 - 8), LD(2, 1, 0)}

MaxRunLen == 2

RunPrograms ==
    {ProgAlias, ProgSameBase} \cup UNION {[1 .. k -> RunPool] : k \in 0 .. MaxRunLen}

\* new(bin) of Kronos and of Atlas.
InitRun ==
    /\ soc \in {"kronos", "atlas"}
    /\ \E prog \in RunPrograms : mem = BusNew(Image(prog))
    /\ regs = RegsNew
    /\ pc = RAM_BASE
    /\ stats = StatsNew
    /\ hist = <<>>
    /\ status = "running"
    /\ exc = NoExc
    /\ last = NoLast
    /\ fetched = {}
    /\ calc_runs = 0
    /\ bus_op = NoBusOp
    /\ bus_prev = <<>>
    /\ isa = NoIsa
    /\ acct = [NoAcct EXCEPT !.at = "run"]
    /\ cv = NoCv

\* The address wr of a load or store goes to on the bus.
BusAddr(ins_ex) ==
    IF is_ld(ins_ex) \/ is_st(ins_ex)
    THEN Some(WrapAdd(ins_ex.rs1, ins_ex.imm)) ELSE None

\* The locals of calc_stats when it is called on h.
CalcStatsCalled(h) ==
    [acct EXCEPT !.at = "cycle",
                 !.executed = [k \in 1 .. Len(h) |-> FALSE],
                 !.fired_in = [k \in 1 .. Len(h) |-> <<>>]]

\* The end of an iteration of the loop, given what pipeline returned: the
\* fatal arm calls calc_stats.
FinishRun(r) ==
    /\ pc' = r.pc
    /\ regs' = r.regs
    /\ mem' = r.mem
    /\ hist' = r.hist
    /\ stats' = r.stats
    /\ status' = CASE r.kind = "Panic" -> "panicked"
                    [] Returns(r) -> "returned"
                    [] OTHER -> "running"
    /\ exc' = IF Returns(r) THEN r.exc ELSE exc
    /\ fetched' = IF r.word # None THEN fetched \cup {pc} ELSE fetched
    /\ last' = [kind |-> r.kind, addr |-> pc, word |-> r.word,
                ins |-> r.ins, ins_ex |-> r.ins_ex, regs |-> regs,
                mem |-> mem, pc |-> pc, stats |-> stats, hist |-> hist,
                fetched |-> fetched]
    /\ acct' = IF Returns(r) THEN CalcStatsCalled(r.hist)
               ELSE IF Len(r.hist) > Len(hist)
               THEN [acct EXCEPT !.addrs = Append(@, BusAddr(r.ins_ex))]
               ELSE acct

\* One iteration of the loop of execute.
RunStep ==
    /\ status = "running"
    /\ acct.at = "run"
    /\ stats.alu_ops + stats.mem_ops < MaxSteps
    /\ FinishRun(Pipeline(soc, pc, regs, mem, stats, hist))
    /\ UNCHANGED <<cv, soc, calc_runs, bus_op, bus_prev, isa>>

NextRun == RunStep \/ CycleBegins \/ Visits \/ CycleEnds

SpecRun == InitRun /\ [][NextRun]_vars

\* calc_stats was called on the history of the run.
Replaying == acct.at \in {"cycle", "for", "done"}

\* Entry i is a store and the later entry j a load of the same bus address.
SameBusAddr(i, j) ==
    /\ i < j
    /\ hist[i].dst_mem # None
    /\ hist[j].src_mem # None
    /\ acct.addrs[i] = acct.addrs[j]

\* C24: in the replay of Atlas a load is not marked in a cycle that visits
\* an earlier, unexecuted store to the bus address it loads from, so it is
\* marked in a strictly later cycle than every earlier store to that
\* address, also when the two use different base registers that hold the
\* same value.
C24_MemoryOrder ==
    \A i \in 1 .. Len(hist), j \in 1 .. Len(hist) :
        (soc = "atlas" /\ Replaying /\ SameBusAddr(i, j))
            => /\ FiredAt(j) # 0 => (FiredAt(i) # 0 /\ FiredAt(i) < FiredAt(j))
               /\ i \in acct.visited => FiredAt(j) # acct.cycles

-----------------------------------------------------------------------------
(* Properties of the latches of the in-order core, checked under SpecCv.   *)

\* The core is in its loop, before the stage `at`.
CvAt(at) == soc = "cv64e40p" /\ status = "running" /\ cv.at = at

\* Where the loads stand: ld_ins1 is empty before ex, a load in ld_ins1
\* entered it in this cycle, one in ld_ins2 in the cycle before, and the
\* load the writeback of this cycle performed two cycles before; after that
\* writeback its rd holds the value read.
LoadLatency ==
    (soc = "cv64e40p" /\ status = "running")
        => /\ cv.at = "ex" => cv.ld_ins1 = None
           /\ cv.ld_ins1 # None => cv.ld1_at = stats.cycles
           /\ cv.ld_ins2 # None => cv.ld2_at = stats.cycles - 1
           /\ cv.loaded # None
                 => /\ cv.loaded[1][1] = stats.cycles - 2
                    /\ cv.at = "ex" => regs[cv.loaded[1][2]] = cv.loaded[1][3]

\* The writeback that finds a load in ld_ins2 performs it, or ends the run.
LoadPerformed ==
    (CvAt("wr") /\ cv.ld_ins2 # None)
        => \/ status' # "running"
           \/ cv'.loaded # None /\ cv'.loaded[1][2] = rd(cv.ld_ins2[1])

\* C27: a load that enters ld1 in the execute stage of cycle c is in ld2
\* after the writeback of cycle c + 1, and the writeback of cycle c + 2
\* reads the bus and writes rd, never earlier or later; ld1 is empty when
\* the execute stage runs.
C27_LoadLatency ==
    /\ []LoadLatency
    /\ [][LoadPerformed]_vars

\* Two loads back to back: the writeback that performed the first moved the
\* second to ld2.
C27_Witness ==
    /\ CvAt("ex")
    /\ cv.loaded # None
    /\ cv.ld_ins2 # None
    /\ cv.ld2_at = cv.loaded[1][1] + 1

\* The execute stage holds an instruction of the last arm of ex, one of
\* whose source registers is the rd of the load in ld2.
Hazard ==
    /\ CvAt("ex")
    /\ cv.idecode # None /\ cv.ld_ins2 # None
    /\ ~Isa_is_jmp(cv.idecode[1]) /\ ~Isa_is_br(cv.idecode[1])
    /\ ~Isa_is_ld(cv.idecode[1]) /\ ~Isa_is_st(cv.idecode[1])
    /\ ~Isa_is_zicsr(cv.idecode[1])
    /\ SoC_src_regs(cv.idecode[1]).ok
    /\ rd(cv.ld_ins2[1]) \in SoC_src_regs(cv.idecode[1]).regs

\* The execute stage on a hazard: one stall cycle, the latches stay.
StallStep ==
    Hazard => /\ stats'.stall_cycles = stats.stall_cycles + 1
              /\ cv'.idecode = cv.idecode
              /\ cv'.ex = cv.ex
              /\ cv'.ran = "stall"

\* The execute stage of the cycle after a stall ran the instruction that
\* stalled, after the writeback performed the load, and the register the
\* instruction read holds the value loaded.
AfterStall ==
    (CvAt("idecode") /\ cv.prev_ran = "stall")
        => /\ cv.ran = "alu" /\ cv.ran_seq = cv.prev_seq
           /\ cv.loaded # None
           /\ regs[cv.loaded[1][2]] = cv.loaded[1][3]

\* C28: the execute stage that holds an ALU instruction one of whose
\* sources is the rd of the load in ld2 adds one to stall_cycles and leaves
\* idecode and ex as they are; the instruction executes in the next cycle,
\* after the load's writeback, and reads the loaded value: one stall cycle
\* for each hazard.
C28_LoadUseStall ==
    /\ []AfterStall
    /\ [][StallStep]_vars

\* The same, with register 0 read as 0 by the instruction that stalled.
AfterStallZero ==
    (CvAt("idecode") /\ cv.prev_ran = "stall")
        => /\ cv.ran = "alu" /\ cv.ran_seq = cv.prev_seq
           /\ cv.loaded # None
           /\ regs[cv.loaded[1][2]] =
                 IF cv.loaded[1][2] = 0 THEN Zero64 ELSE cv.loaded[1][3]

\* C28 as the code has it: the instruction reads the loaded value unless
\* the rd of the load is register 0, which the execute stage sets to 0
\* before it reads.
C28_LoadUseStallZero ==
    /\ []AfterStallZero
    /\ [][StallStep]_vars

\* LD x4,-12(x1); ADDI x3,x4,1 with x1 = RAM_BASE + 12: the ADDI stalled
\* one cycle and then read the first eight bytes of the program from x4.
C28_Witness ==
    /\ CvAt("idecode")
    /\ cv.prog = ProgLoadUseWord
    /\ cv.prev_ran = "stall" /\ cv.ran = "alu"
    /\ stats.stall_cycles = 1
    /\ regs[4] = Hex64(\h0000, \h0013, \h0080, \h00ef)
    /\ cv.ex = Some(<<3, Hex64(\h0000, \h0013, \h0080, \h00f0)>>)

\* C29: the result the execute stage of cycle c put in the ex latch is in
\* the register file after the writeback of cycle c + 1, where the execute
\* stage of cycle c + 1 reads its sources.
C29_Commit ==
    (soc = "cv64e40p" /\ cv.at = "ex" /\ cv.committed # None)
        => regs[cv.committed[1][1]] = cv.committed[1][2]

\* The decode step: ifetch moves to idecode when idecode is empty; both
\* stay when idecode is occupied.
DecodeStep ==
    CvAt("idecode")
        => IF cv.idecode = None
           THEN cv'.idecode = cv.ifetch /\ cv'.ifetch = None
           ELSE cv'.idecode = cv.idecode /\ cv'.ifetch = cv.ifetch

\* The fetch step on an occupied ifetch does not fetch.
FetchStep ==
    (CvAt("ifetch") /\ cv.ifetch # None)
        => cv'.ifetch = cv.ifetch /\ cv'.fetches = cv.fetches

\* C30: the decode step moves the word of ifetch to idecode only when
\* idecode is empty; when idecode is occupied it leaves idecode and ifetch
\* as they are, and the fetch step does not fetch.
C30_DecodeStep == [][DecodeStep /\ FetchStep]_vars

-----------------------------------------------------------------------------
(* Properties of jumps and of the fetch, checked under Spec.               *)

\* w with bit 0 cleared.
ClearBit0(w) == [w EXCEPT ![1] = w[1] - (w[1] % 2)]

\* The value register rs1 of the last instruction held before it ran.
LastRs1 == last.regs[ToNat(last.ins.rs1)]

\* C31: JALR sets pc to (rs1 + imm) with bit 0 cleared, where rs1 is the
\* value the register held before the instruction, and writes the old
\* pc + 4 to rd; with rd = rs1 the target comes from the old value.
C31_Jalr ==
    (Ran /\ last.kind = "Ok" /\ last.ins.op = "Jalr")
        => /\ pc = ClearBit0(WrapAdd(LastRs1, last.ins.imm))
           /\ last.ins.rd # 0 => regs[last.ins.rd] = WrapAdd(last.pc, Four)

\* JALR x2,x2,-3 at RAM_BASE: the target comes from x2 = RAM_END, the link
\* value is in x2.
C31_Witness ==
    /\ Ran /\ last.kind = "Ok" /\ last.ins.op = "Jalr"
    /\ last.ins.rd = 2 /\ last.ins.rs1 = U64(2)
    /\ last.regs[2] = RAM_END
    /\ regs[2] = WrapAdd(RAM_BASE, Four)
    /\ pc = WrapSub(RAM_END, U64(3))

\* The four bytes at off, as a little-endian word.
WordAt(m, off) ==
    <<MemByte(m, off) + 256 * MemByte(m, off + 1),
      MemByte(m, off + 2) + 256 * MemByte(m, off + 3)>>

\* The four bytes at a are in RAM.
WordInRam(a) ==
    /\ InRam(a)
    /\ ToNat(WrapSub(a, RAM_BASE)) + 3 < RAM_SIZE

\* C32: the fetch at a pc whose four bytes are in RAM, the last word of RAM
\* included, succeeds and returns the little-endian word stored there.
C32_Fetch ==
    (last.kind # "Init" /\ WordInRam(last.pc))
        => last.word = Some(WordAt(last.mem, ToNat(WrapSub(last.pc, RAM_BASE))))


\* ---------------------------------------------------------------------
\* Properties of the exceptions of the functional cores, checked under
\* Spec
\* ---------------------------------------------------------------------

RaisedKinds == {"LoadAccessFault", "StoreAMOAccessFault", "IllegalInstruction"}

\* C33: whenever a step of a functional core ends in an exception, the
\* exception is a LoadAccessFault, a StoreAMOAccessFault or an
\* IllegalInstruction, it is fatal, and execute has returned with it: no
\* state has a step that raised an exception and a loop that is still
\* running.
C33_OnlyFatal ==
    (last.kind = "Err")
        => /\ status = "returned"
           /\ exc.kind \in RaisedKinds
           /\ is_fatal(exc)

\* A store beyond the bus raised StoreAMOAccessFault and execute returned.
C33_Witness ==
    /\ last.kind = "Err"
    /\ last.ins # NoIns
    /\ is_st(last.ins)
    /\ status = "returned"
    /\ exc.kind = "StoreAMOAccessFault"

\* ---------------------------------------------------------------------
\* Properties of the counters and the history of Kronos and Atlas,
\* checked under Spec
\* ---------------------------------------------------------------------

\* 1 when the last step decoded an instruction whose wr did not succeed.
Faulted == IF Ran /\ last.kind # "Ok" THEN 1 ELSE 0

\* C34: in Kronos and Atlas the history grows by exactly the record of
\* each instruction whose wr succeeded, at its end, and by nothing else;
\* alu_ops + mem_ops is the length of the history plus one when the last
\* decoded instruction faulted, and that instruction is a load or a store
\* counted in mem_ops.
C34_Counters ==
    (soc # "dart")
        => /\ stats.alu_ops + stats.mem_ops = Len(hist) + Faulted
           /\ LastPushed => hist = Append(last.hist, Record(soc, last.ins))
           /\ (last.kind # "Init" /\ ~LastPushed) => hist = last.hist
           /\ Faulted = 1
                => /\ is_ld(last.ins_ex) \/ is_st(last.ins_ex)
                   /\ stats.mem_ops = last.stats.mem_ops + 1
                   /\ stats.alu_ops = last.stats.alu_ops

\* A run of one completed instruction followed by a store that faulted.
C34_Witness ==
    /\ soc # "dart"
    /\ Len(hist) = 1
    /\ Faulted = 1
    /\ last.kind = "Err"
    /\ is_st(last.ins_ex)
    /\ stats.alu_ops + stats.mem_ops = 2


\* ---------------------------------------------------------------------
\* Bounds of the counters of calc_stats, checked under SpecAcct
\* ---------------------------------------------------------------------

\* The number of blocking entries of the history.
BlockingEntries == Cardinality({k \in 1 .. Len(hist) : hist[k].blocking})

\* The counters calc_stats stores when the loop has broken.
StoredBounds ==
    (acct.at = "done")
        => /\ stats.cycles = acct.cycles /\ stats.stalls = acct.stalls
           /\ 1 <= stats.cycles /\ stats.cycles <= Len(hist) + 1
           /\ BlockingEntries <= stats.stalls
           /\ stats.stalls <= stats.cycles - 1

\* The loop is at the head of 'cycle only with a cycle left to run, and
\* every stall so far ended a cycle.
RunningBounds ==
    /\ acct.at = "cycle" => acct.cycles <= Len(hist)
    /\ acct.at \in {"cycle", "for"} => acct.stalls <= acct.cycles

\* The visit of a blocking entry that a mask keeps from being marked: a
\* stall is counted and the entry stays for the next cycle.
MaskedStalls ==
    (/\ AtEntry
     /\ hist[acct.i].blocking
     /\ ~CanFire(hist[acct.i], acct.occupied_regs, acct.occupied_addrs))
        => /\ acct'.stalls = acct.stalls + 1
           /\ ~acct'.executed[acct.i]
           /\ acct'.at = "cycle"

\* C35: for a history of N entries of which B are blocking, calc_stats
\* stores 1 <= cycles <= N + 1 and B <= stalls <= cycles - 1, and the visit
\* of a blocking entry that is masked counts a stall in every cycle that
\* visits it.
C35_Bounds ==
    /\ [](StoredBounds /\ RunningBounds)
    /\ [][MaskedStalls]_vars

\* ADDI x1,x1,1; BEQ x1,x2 in Atlas: the branch is masked in cycle 1, where
\* it counts a stall, and marked in cycle 2, where it counts another; the
\* third cycle visits nothing: cycles = N + 1 and stalls = cycles - 1 > B.
C35_Witness ==
    /\ acct.at = "done"
    /\ soc = "atlas"
    /\ Len(hist) = 2
    /\ hist[2].blocking /\ ~hist[1].blocking
    /\ FiredAt(1) = 1 /\ FiredAt(2) = 2
    /\ stats.cycles = 3 /\ stats.stalls = 2


\* ---------------------------------------------------------------------
\* Properties of the operands the in-order core reads, checked under
\* SpecCv
\* ---------------------------------------------------------------------

\* The registers the arm of ex that runs ins reads from the register file:
\* jmp reads rs1 for JALR, br and st read rs1 and rs2, the arm of a load
\* reads none (self.ld runs in wr), the last arm reads what alu reads.
ReadsInEx(ins) ==
    CASE Isa_is_jmp(ins) -> IF opcode(ins) = \b1101111 THEN {} ELSE {rs1(ins)}
      [] Isa_is_br(ins) -> {rs1(ins), rs2(ins)}
      [] Isa_is_ld(ins) -> {}
      [] Isa_is_st(ins) -> {rs1(ins), rs2(ins)}
      [] Isa_is_zicsr(ins) -> {}
      [] OTHER -> SoC_src_regs(ins).regs

\* The execute stage holds an instruction that reads the rd of a load
\* whose writeback is still to come; register 0 is no destination.
ReadsPending ==
    /\ CvAt("ex")
    /\ cv.idecode # None /\ cv.ex = None /\ cv.ld_ins1 = None
    /\ cv.ld_ins2 # None
    /\ rd(cv.ld_ins2[1]) # 0
    /\ rd(cv.ld_ins2[1]) \in ReadsInEx(cv.idecode[1])

\* C36: the execute stage does not run an instruction of any kind that
\* reads the rd of a load still in the load latches: the instruction stays
\* in idecode until the writeback has performed the load.
C36_NoStaleRead ==
    [][ReadsPending => (cv'.idecode = cv.idecode /\ cv'.ran = "stall")]_vars


\* C37: the address the writeback loads from is the value the base
\* register of the load held when the load was in the execute stage, plus
\* imm: an instruction behind the load that writes the base register does
\* not change it.
C37_LoadAddress ==
    (soc = "cv64e40p" /\ cv.addr_used # None)
        => cv.addr_used[1] = cv.addr_at_ex


\* ---------------------------------------------------------------------
\* Properties of the order in which the in-order core runs what it
\* fetched, checked under SpecCv
\* ---------------------------------------------------------------------

\* Fetch k was not flushed by a redirect, is in neither ifetch nor idecode,
\* and ex has not run its word.
Lost(k) ==
    /\ k \notin cv.squashed
    /\ k # cv.if_seq /\ k # cv.id_seq
    /\ \A n \in 1 .. Len(cv.done) : cv.done[n] # k

\* ex ran the words in the order of their fetches, each once.
InOrderOnce ==
    \A m \in 1 .. Len(cv.done), n \in 1 .. Len(cv.done) :
        m < n => cv.done[m] < cv.done[n]

\* C38: every word the in-order core fetched and no redirect flushed is
\* in ifetch, in idecode, or has been run by the execute stage, and the
\* execute stage runs the words in the order of their fetches, each once:
\* a stall loses and repeats none.
C38_NoneLost ==
    (soc = "cv64e40p")
        => /\ \A k \in 1 .. cv.fetches : ~Lost(k)
           /\ InOrderOnce


\* ---------------------------------------------------------------------
\* The in-order core against Dart, checked under SpecCv
\* ---------------------------------------------------------------------

\* DartSoC::execute from the state (p, rf, m): the loop of pipeline, until
\* an iteration returns a fatal exception or panics, for at most n
\* iterations.
RECURSIVE DartRun(_, _, _, _, _)
DartLoop(r, n) ==
    CASE r.kind = "Panic" -> [end |-> "panicked", regs |-> r.regs, mem |-> r.mem,
                              exc |-> NoExc]
      [] Returns(r) -> [end |-> "returned", regs |-> r.regs, mem |-> r.mem,
                        exc |-> r.exc]
      [] OTHER -> DartRun(r.pc, r.regs, r.mem, r.stats, n - 1)

DartRun(p, rf, m, st, n) ==
    IF n = 0 THEN [end |-> "running", regs |-> rf, mem |-> m, exc |-> NoExc]
    ELSE DartLoop(Pipeline("dart", p, rf, m, Tick("dart", st), <<>>), n)

\* DartSoC::new(bin) and execute on the image of prog.
DartOn(prog) ==
    DartRun(RAM_BASE, RegsNew, BusNew(Image(prog)), StatsNew, MaxCycles)

\* The in-order core ended as the run d of Dart did.
SameAsDart(d) ==
    d.end = "returned" => (regs = d.regs /\ mem = d.mem)

\* C39: when the in-order core and Dart both end the run of an image in a
\* fatal exception, the register file and the memory of the in-order core
\* are those of Dart.
C39_Equivalent ==
    (soc = "cv64e40p" /\ status = "returned") => SameAsDart(DartOn(cv.prog))

====
